---- MODULE Spec2Model ----
(***************************************************************************)
(* AutoReadme: the extension's resilient API client (apiClient.ts), its    *)
(* document tracker and line diff (diffDetector.ts) and the save handler   *)
(* (extension.ts).                                                         *)
(*                                                                         *)
(* Texts and error messages are sequences of one-character strings, so     *)
(* that String.split, Array.join and String.includes are computed, not      *)
(* assumed.                                                                *)
(***************************************************************************)
EXTENDS Integers, Sequences, FiniteSets, TLC

VARIABLES
    \* ---- ApiClient (apiClient.ts) ----
    cpc,            \* where postWithRetry stands: idle, post, sleep, returned, thrown
    attempt,        \* the loop variable of postWithRetry
    delays,         \* the arguments of the sleep() calls of the current call, in order
    isOnline,       \* ApiClient.isOnline
    lastError,      \* postWithRetry's lastError (a message)
    outcomes,       \* the transport outcomes of the attempts of the current call
    result,         \* what the current call returned, or NoResult
    transport,      \* the latest fetch that failed below HTTP or ended a call well
    \* ---- DiffDetector.computeChunks as a function of its two inputs ----
    dpc,            \* input, done
    oldContent,
    newContent,
    chunks,
    \* ---- DiffDetector's tracker (trackDocument, getDiff, untrackDocument) ----
    trackedDocuments,   \* the Map uri -> TrackedDocument
    last,               \* the latest call on the tracker and what it returned
    prev,               \* the call before it
    \* ---- the extension's handlers (extension.ts) ----
    optedIn,            \* workspaceManager.isWorkspaceOptedIn()
    docText,            \* the open documents: uri -> text of the editor buffer
    cycles,             \* the generateAndInsertComments calls that are suspended
    event,              \* the latest handler step
    \* ---- the backend (usageTracker.ts, routes/comments.ts) ----
    usageStore,         \* the Map deviceId -> UsageRecord
    today,              \* the day getToday() returns, counted from the first
    llmConfigured,      \* llmService.isConfigured(): GEMINI_API_KEY was set
    inflight,           \* the /generate handlers that are suspended in an await
    response,           \* the answer the latest step sent, NoResponse if none
    received,           \* the number of requests received so far
    \* ---- the batch scan and the documentation prompt (extension.ts variant) ----
    scan,               \* where scanAndDocumentCodebase stands, and its token
    wm                  \* WorkspaceManager's stored answer and its open prompt

clientVars == <<cpc, attempt, delays, isOnline, lastError, outcomes, result, transport>>
chunkVars == <<dpc, oldContent, newContent, chunks>>
trackerVars == <<trackedDocuments, last>>
trackVars == <<trackerVars, prev>>
saveVars == <<optedIn, docText, cycles, event>>
routeVars == <<usageStore, today, llmConfigured, inflight, response, received>>
uiVars == <<scan, wm>>
vars == <<clientVars, chunkVars, trackVars, saveVars, routeVars, uiVars>>
notClientVars == <<chunkVars, trackVars, saveVars, routeVars, uiVars>>
notChunkVars == <<clientVars, trackVars, saveVars, routeVars, uiVars>>
notTrackVars == <<clientVars, chunkVars, saveVars, routeVars, uiVars>>

(***************************************************************************)
(* Character sequences                                                     *)
(***************************************************************************)
\* s has sub at offset k (0-based)
StartsWithAt(s, sub, k) ==
    /\ k + Len(sub) <= Len(s)
    /\ \A n \in 1..Len(sub) : s[k + n] = sub[n]

\* String.prototype.includes
Includes(s, sub) == \E k \in 0..Len(s) : StartsWithAt(s, sub, k)

RECURSIVE Digits(_)
\* the decimal digits of a non-negative number, as characters
Digits(n) ==
    LET d == <<"0", "1", "2", "3", "4", "5", "6", "7", "8", "9">>
    IN  IF n < 10 THEN <<d[n + 1]>> ELSE Digits(n \div 10) \o <<d[(n % 10) + 1]>>

(***************************************************************************)
(* apiClient.ts                                                            *)
(***************************************************************************)
MAX_RETRIES == 3
INITIAL_RETRY_DELAY == 1000

MsgUnknown ==
    << "U", "n", "k", "n", "o", "w", "n", " ", "e", "r", "r", "o", "r" >>
Msg429 ==
    << "D", "a", "i", "l", "y", " ", "l", "i", "m", "i", "t", " ", "r", "e", "a",
       "c", "h", "e", "d", ".", " ", "U", "p", "g", "r", "a", "d", "e", " ", "t",
       "o", " ", "P", "r", "o", " ", "f", "o", "r", " ", "m", "o", "r", "e", "!" >>
Msg400 ==
    << "I", "n", "v", "a", "l", "i", "d", " ", "r", "e", "q", "u", "e", "s", "t",
       ".", " ", "P", "l", "e", "a", "s", "e", " ", "t", "r", "y", " ", "w", "i",
       "t", "h", " ", "d", "i", "f", "f", "e", "r", "e", "n", "t", " ", "c", "o",
       "d", "e", "." >>
Msg401 ==
    << "A", "u", "t", "h", "e", "n", "t", "i", "c", "a", "t", "i", "o", "n", " ",
       "e", "r", "r", "o", "r", ".", " ", "P", "l", "e", "a", "s", "e", " ", "r",
       "e", "s", "t", "a", "r", "t", " ", "V", "S", " ", "C", "o", "d", "e", "." >>
Msg500 ==
    << "S", "e", "r", "v", "e", "r", " ", "e", "r", "r", "o", "r", ".", " ", "W",
       "e", "'", "r", "e", " ", "f", "i", "x", "i", "n", "g", " ", "i", "t", "!",
       " ", "T", "r", "y", " ", "a", "g", "a", "i", "n", " ", "s", "o", "o", "n",
       "." >>
Msg503 ==
    << "S", "e", "r", "v", "i", "c", "e", " ", "t", "e", "m", "p", "o", "r", "a",
       "r", "i", "l", "y", " ", "u", "n", "a", "v", "a", "i", "l", "a", "b", "l",
       "e", ".", " ", "T", "r", "y", " ", "a", "g", "a", "i", "n", " ", "i", "n",
       " ", "a", " ", "m", "o", "m", "e", "n", "t", "." >>
MsgUnexpectedPrefix ==
    << "U", "n", "e", "x", "p", "e", "c", "t", "e", "d", " ", "e", "r", "r", "o",
       "r", " ", "(" >>
MsgTimeout ==
    << "R", "e", "q", "u", "e", "s", "t", " ", "t", "i", "m", "e", "d", " ", "o",
       "u", "t", ".", " ", "P", "l", "e", "a", "s", "e", " ", "t", "r", "y", " ",
       "a", "g", "a", "i", "n", "." >>
MsgNetwork ==
    << "N", "e", "t", "w", "o", "r", "k", " ", "e", "r", "r", "o", "r", ".", " ",
       "C", "h", "e", "c", "k", " ", "y", "o", "u", "r", " ", "i", "n", "t", "e",
       "r", "n", "e", "t", " ", "c", "o", "n", "n", "e", "c", "t", "i", "o", "n",
       "." >>

\* getUserFriendlyError(status, error): bodyError is error.error ("" when absent)
getUserFriendlyError(status, bodyError) ==
    CASE status = 429 -> Msg429
      [] status = 400 -> Msg400
      [] status = 401 -> Msg401
      [] status = 500 -> Msg500
      [] status = 503 -> Msg503
      [] OTHER -> IF bodyError # <<>> THEN bodyError
                  ELSE MsgUnexpectedPrefix \o Digits(status) \o <<")">>

\* What one fetch can end with: a 2xx response, a non-2xx response with the
\* error text of its body, an abort by the 30 s timer, a TypeError of fetch.
Ok == [kind |-> "ok", status |-> 200, bodyError |-> <<>>]
Http(status, bodyError) == [kind |-> "http", status |-> status, bodyError |-> bodyError]
Timeout == [kind |-> "timeout", status |-> 0, bodyError |-> <<>>]
Network == [kind |-> "network", status |-> 0, bodyError |-> <<>>]

ClientStatuses == {400, 401, 429}
ServerStatuses == {500, 503}
\* a status getUserFriendlyError has no case for: with an error text in the body
\* (the fallback of a body that is not JSON is 'Unknown error') and without
OtherResponses == {Http(404, MsgUnknown), Http(404, <<>>)}

Outcomes ==
    {Ok, Timeout, Network}
        \cup {Http(s, <<>>) : s \in ClientStatuses \cup ServerStatuses}
        \cup OtherResponses

\* the message of the Error that post() throws for a failed fetch
PostErrorMessage(o) ==
    CASE o.kind = "http" -> getUserFriendlyError(o.status, o.bodyError)
      [] o.kind = "timeout" -> MsgTimeout
      [] o.kind = "network" -> MsgNetwork

PostOnlineAnyFailure(o, online) == o.kind = "ok"
\* isOnline after post(): set on a 2xx response, cleared on a fetch TypeError
PostOnline(o, online) ==
    CASE o.kind = "ok" -> TRUE
      [] o.kind = "network" -> FALSE
      [] OTHER -> online

\* the latest of: a fetch rejected below HTTP (connection refused, DNS, network
\* error: post() line 136), a call that ended well (line 126); an HTTP error
\* answer or the abort of the timer is neither
LastTransportOutcome(o, t) ==
    CASE o.kind = "ok" -> "success"
      [] o.kind = "network" -> "failure"
      [] OTHER -> t

\* what the fetch of healthCheck's get() can end with (get() sets no timer)
HealthOutcomes == Outcomes \ {Timeout}

\* healthCheck(): isOnline is true after get() returned, false after it threw
\* (get() throws on a rejected fetch and on every non-2xx answer)
HealthOnline(o) == o.kind = "ok"

\* postWithRetry's test "don't retry on client errors"
IsClientErrorMessage(msg) ==
    \/ Includes(msg, <<"4", "0", "0">>)
    \/ Includes(msg, <<"4", "0", "1">>)
    \/ Includes(msg, <<"4", "2", "9">>)

RECURSIVE Pow2(_)
Pow2(n) == IF n = 0 THEN 1 ELSE 2 * Pow2(n - 1)

BackoffDelayDoubled(a) == INITIAL_RETRY_DELAY * Pow2(a)
\* INITIAL_RETRY_DELAY * Math.pow(2, attempt - 1)
BackoffDelay(a) == INITIAL_RETRY_DELAY * Pow2(a - 1)

NoResult == "none"


\* generateComments / getDocUpdates enter postWithRetry
PostWithRetryStart ==
    /\ cpc \in {"idle", "returned", "thrown"}
    /\ cpc' = "post"
    /\ attempt' = 1
    /\ delays' = <<>>
    /\ lastError' = MsgUnknown
    /\ outcomes' = <<>>
    /\ result' = NoResult
    /\ UNCHANGED <<isOnline, transport>>
    /\ UNCHANGED notClientVars

\* the retry limit of the loop, as the last-attempt test "attempt < MAX_RETRIES"
MayRetrySleepAlways(a) == TRUE
MayRetry(a) == a < MAX_RETRIES

\* one pass of the loop body: post() ends with outcome o; the catch block
PostAttempt(o) ==
    /\ cpc = "post"
    /\ UNCHANGED notClientVars
    /\ outcomes' = Append(outcomes, o)
    /\ isOnline' = PostOnline(o, isOnline)
    /\ transport' = LastTransportOutcome(o, transport)
    /\ IF o.kind = "ok"
       THEN /\ cpc' = "returned"
            /\ result' = "response"
            /\ UNCHANGED <<attempt, delays, lastError>>
       ELSE LET msg == PostErrorMessage(o) IN
            /\ lastError' = msg
            /\ result' = NoResult
            /\ IF IsClientErrorMessage(msg)
               THEN /\ cpc' = "thrown"
                    /\ UNCHANGED <<attempt, delays>>
               ELSE IF MayRetry(attempt)
               THEN /\ cpc' = "sleep"
                    /\ delays' = Append(delays, BackoffDelay(attempt))
                    /\ UNCHANGED attempt
               ELSE \* attempt++ ends the loop: throw lastError
                    /\ cpc' = "thrown"
                    /\ attempt' = attempt + 1
                    /\ UNCHANGED delays

\* the timer of sleep() fires: attempt++ and the next pass
SleepDone ==
    /\ cpc = "sleep"
    /\ cpc' = IF attempt + 1 <= MAX_RETRIES THEN "post" ELSE "thrown"
    /\ attempt' = attempt + 1
    /\ UNCHANGED <<delays, isOnline, lastError, outcomes, result, transport>>
    /\ UNCHANGED notClientVars

\* healthCheck() from its call to its return, with the fetch ending in o; it
\* may run while a postWithRetry call is suspended
HealthCheck(o) ==
    /\ isOnline' = HealthOnline(o)
    /\ transport' = LastTransportOutcome(o, transport)
    /\ UNCHANGED <<cpc, attempt, delays, lastError, outcomes, result>>
    /\ UNCHANGED notClientVars


(***************************************************************************)
(* diffDetector.ts: texts, lines                                           *)
(***************************************************************************)
Min(a, b) == IF a < b THEN a ELSE b
Max(a, b) == IF a > b THEN a ELSE b

NL == "\n"

RECURSIVE SplitFrom(_, _, _)
\* text.split('\n'), scanning from character k with the current line cur
SplitFrom(text, k, cur) ==
    IF k > Len(text) THEN <<cur>>
    ELSE IF text[k] = NL THEN <<cur>> \o SplitFrom(text, k + 1, <<>>)
    ELSE SplitFrom(text, k + 1, Append(cur, text[k]))

Split(text) == SplitFrom(text, 1, <<>>)

RECURSIVE Join(_)
\* lines.join('\n')
Join(lines) ==
    IF Len(lines) = 0 THEN <<>>
    ELSE IF Len(lines) = 1 THEN lines[1]
    ELSE lines[1] \o <<NL>> \o Join(Tail(lines))

\* an array read past the end
Undefined == <<"undefined">>
\* lines[k], k counted from 0
At(lines, k) == IF k < Len(lines) THEN lines[k + 1] ELSE Undefined
\* lines.slice(from, to), 0 <= from, to <= lines.length
Slice(lines, from, to) ==
    IF to <= from THEN <<>> ELSE [n \in 1..(to - from) |-> lines[from + n]]

WhiteSpace == {" ", "\t", "\r", NL}
RECURSIVE TrimStart(_)
TrimStart(s) == IF Len(s) > 0 /\ s[1] \in WhiteSpace THEN TrimStart(Tail(s)) ELSE s
RECURSIVE TrimEnd(_)
TrimEnd(s) ==
    IF Len(s) > 0 /\ s[Len(s)] \in WhiteSpace THEN TrimEnd(SubSeq(s, 1, Len(s) - 1)) ELSE s
\* String.prototype.trim
Trim(s) == TrimEnd(TrimStart(s))
\* String.prototype.startsWith
StartsWith(s, prefix) == StartsWithAt(s, prefix, 0)

(***************************************************************************)
(* DiffDetector.computeChunks                                              *)
(***************************************************************************)
ContextLines == 3

Added(n, content) == [lineNumber |-> n, content |-> content, type |-> "added"]
Removed(n, content) == [lineNumber |-> n, content |-> content, type |-> "removed"]

\* the chunk opened at new-text index j (counted from 0)
ContextBeforeOf(newLines, j) == Slice(newLines, Max(0, j - ContextLines), j)
ContextAfterOf(newLines, j) == Slice(newLines, j, Min(j + ContextLines, Len(newLines)))

OpenChunkZeroBased(newLines, j) ==
    [startLine |-> j, endLine |-> j, changes |-> <<>>,
     contextBefore |-> ContextBeforeOf(newLines, j), contextAfter |-> <<>>]
OpenChunk(newLines, j) ==
    [startLine |-> j + 1, endLine |-> j + 1, changes |-> <<>>,
     contextBefore |-> ContextBeforeOf(newLines, j), contextAfter |-> <<>>]

\* the changes one differing position adds to the chunk: both sides present, only
\* the new side, only the old side
StepChangesAddedOnly(oldLines, newLines, i, j) ==
    IF j < Len(newLines) THEN <<Added(j + 1, At(newLines, j))>>
    ELSE <<Removed(i + 1, At(oldLines, i))>>
StepChanges(oldLines, newLines, i, j) ==
    IF i < Len(oldLines) /\ j < Len(newLines)
    THEN <<Added(j + 1, At(newLines, j)), Removed(i + 1, At(oldLines, i))>>
    ELSE IF j < Len(newLines) THEN <<Added(j + 1, At(newLines, j))>>
    ELSE <<Removed(i + 1, At(oldLines, i))>>

\* whether the two lines under the pointers count as matching (oldLine === newLine)
LinesMatch(oldLine, newLine) == oldLine = newLine

RECURSIVE ChunkLoop(_, _, _, _, _, _)
\* the while loop: pointers i, j; cur is <<>> (null) or <<currentChunk>>; acc is chunks
ChunkLoop(oldLines, newLines, i, j, cur, acc) ==
    IF ~(i < Len(oldLines) \/ j < Len(newLines))
    THEN \* finalize last chunk
         IF cur # <<>> THEN Append(acc, [cur[1] EXCEPT !.contextAfter = <<>>]) ELSE acc
    ELSE IF LinesMatch(At(oldLines, i), At(newLines, j))
    THEN ChunkLoop(oldLines, newLines, i + 1, j + 1, <<>>,
            IF cur # <<>>
            THEN Append(acc, [cur[1] EXCEPT !.contextAfter = ContextAfterOf(newLines, j)])
            ELSE acc)
    ELSE LET c == IF cur = <<>> THEN OpenChunk(newLines, j) ELSE cur[1]
             both == i < Len(oldLines) /\ j < Len(newLines)
             i2 == IF both \/ ~(j < Len(newLines)) THEN i + 1 ELSE i
             j2 == IF j < Len(newLines) THEN j + 1 ELSE j
         IN  ChunkLoop(oldLines, newLines, i2, j2,
                <<[c EXCEPT !.changes = c.changes \o StepChanges(oldLines, newLines, i, j),
                            !.endLine = Max(i2, j2)]>>,
                acc)

computeChunks(old, new) == ChunkLoop(Split(old), Split(new), 0, 0, <<>>, <<>>)

(***************************************************************************)
(* DiffDetector.isMeaningfulChange                                         *)
(***************************************************************************)
minChangeLines == 1

ImportPrefix == <<"i", "m", "p", "o", "r", "t", " ">>

IsSkippedChangeOrReturn(content) ==
    LET t == Trim(content) IN
    t = <<>> \/ \E p \in {ImportPrefix, <<"/", "/">>, <<"/", "*">>, <<"*">>, <<"r", "e", "t">>} :
                    StartsWith(t, p)
\* a change the loop skips: blank, import, comment
IsSkippedChange(content) ==
    LET t == Trim(content) IN
    \/ t = <<>>
    \/ StartsWith(t, ImportPrefix)
    \/ StartsWith(t, <<"/", "/">>)
    \/ StartsWith(t, <<"/", "*">>)
    \/ StartsWith(t, <<"*">>)

RECURSIVE TotalChanges(_)
TotalChanges(cs) == IF cs = <<>> THEN 0 ELSE Len(cs[1].changes) + TotalChanges(Tail(cs))

isMeaningfulChange(cs) ==
    /\ Len(cs) # 0
    /\ ~(TotalChanges(cs) < minChangeLines)
    /\ \E k \in 1..Len(cs) : \E n \in 1..Len(cs[k].changes) :
            ~IsSkippedChange(cs[k].changes[n].content)

(***************************************************************************)
(* computeChunks on every pair of texts                                    *)
(***************************************************************************)
MaxTextLen == 6
Alphabet == {"a", NL}
TextsUpTo(n) == UNION {[1..k -> Alphabet] : k \in 0..n}


ComputeChunks ==
    /\ dpc = "input"
    /\ dpc' = "done"
    /\ chunks' = computeChunks(oldContent, newContent)
    /\ UNCHANGED <<oldContent, newContent>>
    /\ UNCHANGED notChunkVars

(***************************************************************************)
(* DiffDetector: trackDocument, getDiff, untrackDocument                   *)
(***************************************************************************)
\* Map.set
MapSet(m, k, v) == [x \in DOMAIN m \cup {k} |-> IF x = k THEN v ELSE m[x]]
\* Map.delete
MapDelete(m, k) == [x \in DOMAIN m \ {k} |-> m[x]]

Null == <<>>

\* trackDocument(document): the entry it writes
trackDocument(m, uri, text) == MapSet(m, uri, [uri |-> uri, content |-> text])

getDiffResultNoEqualTest(m, uri, text) ==
    IF uri \notin DOMAIN m THEN Null
    ELSE LET cs == computeChunks(m[uri].content, text)
         IN  <<[isMeaningful |-> isMeaningfulChange(cs), chunks |-> cs]>>
\* getDiff(document): what it returns, Null or <<[isMeaningful, chunks]>>
getDiffResult(m, uri, text) ==
    IF uri \notin DOMAIN m THEN Null
    ELSE IF m[uri].content = text THEN Null
    ELSE LET cs == computeChunks(m[uri].content, text)
         IN  <<[isMeaningful |-> isMeaningfulChange(cs), chunks |-> cs]>>

\* getDiff(document): the tracker after it, and how many times it wrote an entry
getDiffTrackedNoFirst(m, uri, text) ==
    IF uri \notin DOMAIN m THEN m ELSE trackDocument(m, uri, text)
getDiffTracked(m, uri, text) ==
    IF uri \notin DOMAIN m THEN trackDocument(m, uri, text)
    ELSE IF m[uri].content = text THEN m
    ELSE trackDocument(m, uri, text)
getDiffWrites(m, uri, text) ==
    IF uri \notin DOMAIN m THEN 1
    ELSE IF m[uri].content = text THEN 0
    ELSE 1

untrackDocument(m, uri) == MapDelete(m, uri)

MaxSaveLen == 1
Docs == {"u1", "u2"}
SaveTexts == TextsUpTo(MaxSaveLen)

\* the snapshot of uri as <<>> or <<content>>
Snapshot(m, uri) == IF uri \in DOMAIN m THEN <<m[uri].content>> ELSE <<>>

NoCall ==
    [op |-> "none", doc |-> "", text |-> <<>>, before |-> <<>>, ret |-> Null, writes |-> 0]


TrackerTrackDocument(uri, text) ==
    /\ trackedDocuments' = trackDocument(trackedDocuments, uri, text)
    /\ last' = [op |-> "trackDocument", doc |-> uri, text |-> text,
                before |-> Snapshot(trackedDocuments, uri), ret |-> Null, writes |-> 1]

TrackerGetDiff(uri, text) ==
    /\ trackedDocuments' = getDiffTracked(trackedDocuments, uri, text)
    /\ last' = [op |-> "getDiff", doc |-> uri, text |-> text,
                before |-> Snapshot(trackedDocuments, uri),
                ret |-> getDiffResult(trackedDocuments, uri, text),
                writes |-> getDiffWrites(trackedDocuments, uri, text)]

UntrackDocument(uri) ==
    /\ trackedDocuments' = untrackDocument(trackedDocuments, uri)
    /\ last' = [op |-> "untrackDocument", doc |-> uri, text |-> <<>>,
                before |-> Snapshot(trackedDocuments, uri), ret |-> Null, writes |-> 0]
    /\ prev' = last
    /\ UNCHANGED notTrackVars

ClearAll ==
    /\ trackedDocuments' = <<>>
    /\ last' = [op |-> "clearAll", doc |-> "", text |-> <<>>,
                before |-> <<>>, ret |-> Null, writes |-> 0]
    /\ prev' = last
    /\ UNCHANGED notTrackVars

\* the methods of DiffDetector, called in any order
TrackDocument(uri, text) ==
    TrackerTrackDocument(uri, text) /\ prev' = last /\ UNCHANGED notTrackVars
GetDiff(uri, text) ==
    TrackerGetDiff(uri, text) /\ prev' = last /\ UNCHANGED notTrackVars


(***************************************************************************)
(* extension.ts: the open and save handlers, generateAndInsertComments;    *)
(* CommentInserter.insert                                                  *)
(***************************************************************************)
MaxCycles == 2
MaxDocLines == 2
MaxInsertLines == 5

\* documents of three lines: the text of the snapshot and the text the user
\* saves next, which differ in the first line, in the last, or in both
InsertNewLines == <<<<"p">>, <<" ", "q">>, <<"r">>>>
InsertOldLines ==
    {<<<<"x">>, <<" ", "q">>, <<"y">>>>,
     <<<<"x">>, <<" ", "q">>, <<"r">>>>,
     <<<<"p">>, <<" ", "q">>, <<"y">>>>,
     <<<<"p">>, <<"x">>, <<"r">>>>}

SaveDocs == {"u1", "u2"}
\* the language of each document of the model: one the extension supports, one not
languageId(uri) == IF uri = "u1" THEN "typescript" ELSE "markdown"

\* the texts the user gives a document
UserTexts(uri) == IF uri = "u1" THEN {<<>>, <<"a">>, <<NL>>} ELSE {<<"a">>}

isSupportedLanguage(lang) ==
    lang \in {"typescript", "typescriptreact", "javascript", "javascriptreact",
              "python", "java", "csharp", "go", "rust", "cpp", "c"}

\* the comment text of a suggestion (one line)
ServiceComment == <<"c">>

\* CommentInserter.formatComment
formatComment(comment, language) ==
    LET lines == Split(comment) IN
    CASE language \in {"typescript", "typescriptreact", "javascript", "javascriptreact"} ->
            IF Len(lines) = 1 THEN <<"/", "/", " ">> \o comment
            ELSE <<"/", "*", "*", NL>>
                    \o Join([k \in 1..Len(lines) |-> <<" ", "*", " ">> \o lines[k]])
                    \o <<NL, " ", "*", "/">>
      [] language = "python" ->
            IF Len(lines) = 1 THEN <<"#", " ">> \o comment
            ELSE <<"\"", "\"", "\"", NL>> \o comment \o <<NL, "\"", "\"", "\"">>
      [] language \in {"css", "scss", "less"} ->
            <<"/", "*", " ">> \o comment \o <<" ", "*", "/">>
      [] language \in {"html", "xml"} ->
            <<"<", "!", "-", "-", " ">> \o comment \o <<" ", "-", "-", ">">>
      [] OTHER -> <<"/", "/", " ">> \o comment

\* line.text.match(/^\s*/)[0]
Indentation(line) == SubSeq(line, 1, Len(line) - Len(TrimStart(line)))

\* insert(): the text to insert above the line with index targetLine (from 0)
InsertText(text, targetLine, comment, language) ==
    LET indentation == Indentation(Split(text)[targetLine + 1])
        formatted == Split(formatComment(comment, language))
    IN  Join([k \in 1..Len(formatted) |-> indentation \o formatted[k]]) \o <<NL>>

\* the editor applies an insert at Position(line, 0); a line past the end is the
\* end of the document
ApplyInsert(text, line, insertText) ==
    LET lines == Split(text) IN
    IF line >= Len(lines) THEN text \o insertText
    ELSE Join(SubSeq(lines, 1, line)) \o (IF line > 0 THEN <<NL>> ELSE <<>>)
            \o insertText \o Join(SubSeq(lines, line + 1, Len(lines)))

NoEdit == [line |-> 0, text |-> <<>>]
NoEvent == [kind |-> "none", doc |-> "", text |-> <<>>]
Event(kind, uri, text) == [kind |-> kind, doc |-> uri, text |-> text]

RemoveAt(seq, k) == SubSeq(seq, 1, k - 1) \o SubSeq(seq, k + 1, Len(seq))

\* the suspended call generateAndInsertComments(document, diff) at its request;
\* tracked: the snapshot of the document is the saved text when the call suspends
NewCycle(uri, text, cs) ==
    [doc |-> uri, pc |-> "request", fullFileContent |-> text,
     chunkLines |-> [k \in 1..Len(cs) |-> cs[k].startLine],
     pending |-> <<>>, edit |-> NoEdit,
     tracked |-> Snapshot(trackedDocuments', uri) = <<text>>]


\* onDidOpenTextDocument (and the loop over the open documents at activation)
OpenDocument(uri, text) ==
    /\ uri \notin DOMAIN docText
    /\ docText' = MapSet(docText, uri, text)
    /\ IF isSupportedLanguage(languageId(uri))
       THEN trackedDocuments' = trackDocument(trackedDocuments, uri, text)
       ELSE UNCHANGED trackedDocuments
    /\ event' = Event("open", uri, text)
    /\ UNCHANGED <<optedIn, cycles, last, prev, clientVars, chunkVars, routeVars, uiVars>>

\* the user closes a document no cycle is working on: activate() registers no
\* handler for the close event, nothing of the extension runs
CloseDocument(uri) ==
    /\ uri \in DOMAIN docText
    /\ \A k \in 1..Len(cycles) : cycles[k].doc # uri
    /\ docText' = MapDelete(docText, uri)
    /\ event' = Event("close", uri, docText[uri])
    /\ UNCHANGED <<optedIn, cycles, trackVars, clientVars, chunkVars, routeVars, uiVars>>

\* the user types: the buffer changes, nothing of the extension runs
UserEdit(uri, text) ==
    /\ uri \in DOMAIN docText
    /\ docText[uri] # text
    /\ docText' = [docText EXCEPT ![uri] = text]
    /\ event' = Event("edit", uri, text)
    /\ UNCHANGED <<optedIn, cycles, trackVars, clientVars, chunkVars, routeVars, uiVars>>

\* WorkspaceManager.setOptedIn
SetOptedIn(v) ==
    /\ optedIn # v
    /\ optedIn' = v
    /\ event' = Event("optedIn", "", <<>>)
    /\ UNCHANGED <<docText, cycles, trackVars, clientVars, chunkVars, routeVars, uiVars>>

\* the onDidSaveTextDocument handler up to its first await, for a save of uri;
\* rest is the list of suspended calls the step leaves besides a new one
SaveHandlerGetDiffLate(uri, visible, rest) ==
    IF ~optedIn \/ ~isSupportedLanguage(languageId(uri))
    THEN /\ cycles' = rest
         /\ event' = Event("saveIgnored", uri, docText[uri])
         /\ UNCHANGED trackedDocuments
    ELSE LET diff == getDiffResult(trackedDocuments, uri, docText[uri]) IN
         IF diff = Null \/ ~diff[1].isMeaningful \/ ~visible
         THEN /\ trackedDocuments' = getDiffTracked(trackedDocuments, uri, docText[uri])
              /\ cycles' = rest
              /\ event' = Event("saveNoRequest", uri, docText[uri])
         ELSE \* the snapshot is left for the end of the cycle
              /\ UNCHANGED trackedDocuments
              /\ cycles' = Append(rest, NewCycle(uri, docText[uri], diff[1].chunks))
              /\ event' = Event("requestIssued", uri, docText[uri])
SaveHandler(uri, visible, rest) ==
    IF ~optedIn \/ ~isSupportedLanguage(languageId(uri))
    THEN /\ cycles' = rest
         /\ event' = Event("saveIgnored", uri, docText[uri])
         /\ UNCHANGED trackedDocuments
    ELSE LET diff == getDiffResult(trackedDocuments, uri, docText[uri]) IN
         /\ trackedDocuments' = getDiffTracked(trackedDocuments, uri, docText[uri])
         /\ IF diff = Null \/ ~diff[1].isMeaningful \/ ~visible
            THEN /\ cycles' = rest
                 /\ event' = Event("saveNoRequest", uri, docText[uri])
            ELSE \* generateAndInsertComments: apiClient.generateComments(...)
                 /\ cycles' = Append(rest, NewCycle(uri, docText[uri], diff[1].chunks))
                 /\ event' = Event("requestIssued", uri, docText[uri])

\* the user saves the document; visible: it has a visible editor
UserSave(uri, visible) ==
    /\ uri \in DOMAIN docText
    /\ SaveHandler(uri, visible, cycles)
    /\ Len(cycles') <= MaxCycles
    /\ UNCHANGED <<optedIn, docText, last, prev, clientVars, chunkVars, routeVars, uiVars>>

\* insert(editor, suggestion) up to "await applyEdit" for the first pending
\* suggestion of c; lineAt throws past the last line, which ends the cycle in the
\* catch block of generateAndInsertComments. Gives <<>> or <<the cycle>>.
StartInsert(c) ==
    LET s == Head(c.pending)
        targetLine == Max(0, s.lineNumber - 1)
        text == docText[c.doc]
    IN  IF targetLine >= Len(Split(text)) THEN <<>>
        ELSE <<[c EXCEPT !.pc = "applying",
                         !.pending = Tail(c.pending),
                         !.edit = [line |-> targetLine,
                                   text |-> InsertText(text, targetLine, s.comment,
                                                       languageId(c.doc))]]>>

\* generateComments throws (postWithRetry gave up): the catch block logs it
GenerateFailed(k) ==
    /\ k \in 1..Len(cycles)
    /\ cycles[k].pc = "request"
    /\ cycles' = RemoveAt(cycles, k)
    /\ event' = Event("generateFailed", cycles[k].doc, cycles[k].fullFileContent)
    /\ UNCHANGED <<optedIn, docText, trackVars, clientVars, chunkVars, routeVars, uiVars>>

\* the suggestions for the chunks with index in picks, in chunk order
RECURSIVE Suggestions(_, _, _)
Suggestions(chunkLines, picks, k) ==
    IF k > Len(chunkLines) THEN <<>>
    ELSE (IF k \in picks
          THEN <<[lineNumber |-> chunkLines[k], comment |-> ServiceComment]>>
          ELSE <<>>) \o Suggestions(chunkLines, picks, k + 1)

\* generateComments returns: at most one suggestion per chunk of the request
SuggestionsReturned(k, picks) ==
    /\ k \in 1..Len(cycles)
    /\ cycles[k].pc = "request"
    /\ LET c == [cycles[k] EXCEPT !.pending = Suggestions(cycles[k].chunkLines, picks, 1)]
       IN  IF c.pending = <<>>
           THEN /\ cycles' = RemoveAt(cycles, k)
                /\ event' = Event("generateEmpty", c.doc, c.fullFileContent)
           ELSE IF StartInsert(c) = <<>>
           THEN /\ cycles' = RemoveAt(cycles, k)
                /\ event' = Event("insertThrew", c.doc, c.fullFileContent)
           ELSE /\ cycles' = [cycles EXCEPT ![k] = StartInsert(c)[1]]
                /\ event' = Event("insertStarted", c.doc, c.fullFileContent)
    /\ UNCHANGED <<optedIn, docText, trackVars, clientVars, chunkVars, routeVars, uiVars>>

\* the same for documents of at most MaxDocLines lines
GenerateReturned(k, picks) ==
    /\ k \in 1..Len(cycles)
    /\ Len(Split(docText[cycles[k].doc])) + Cardinality(picks) <= MaxDocLines
    /\ SuggestionsReturned(k, picks)

\* the same for documents of at most MaxInsertLines lines
GenerateReturnedLong(k, picks) ==
    /\ k \in 1..Len(cycles)
    /\ Len(Split(docText[cycles[k].doc])) + Cardinality(picks) <= MaxInsertLines
    /\ SuggestionsReturned(k, picks)

\* applyEdit resolves; when it succeeded insert() goes on to document.save()
EditApplied(k, success) ==
    /\ k \in 1..Len(cycles)
    /\ cycles[k].pc = "applying"
    /\ LET c == cycles[k] IN
       IF success
       THEN /\ docText' = [docText EXCEPT
                    ![c.doc] = ApplyInsert(docText[c.doc], c.edit.line, c.edit.text)]
            /\ cycles' = [cycles EXCEPT ![k].pc = "saving", ![k].edit = NoEdit]
            /\ event' = Event("editApplied", c.doc, docText'[c.doc])
       ELSE /\ docText' = docText
            /\ cycles' = [cycles EXCEPT ![k].pc = "resume", ![k].edit = NoEdit]
            /\ event' = Event("editRefused", c.doc, docText[c.doc])
    /\ UNCHANGED <<optedIn, trackVars, clientVars, chunkVars, routeVars, uiVars>>

\* document.save() of insert() saves the buffer: the save handler runs for it
InsertSaved(k, visible) ==
    /\ k \in 1..Len(cycles)
    /\ cycles[k].pc = "saving"
    /\ SaveHandler(cycles[k].doc, visible, [cycles EXCEPT ![k].pc = "resume"])
    /\ Len(cycles') <= MaxCycles
    /\ UNCHANGED <<optedIn, docText, last, prev, clientVars, chunkVars, routeVars, uiVars>>

\* insert() returned: the next suggestion, or the end of the loop:
\* diffDetector.trackDocument(document)
Resume(k) ==
    /\ k \in 1..Len(cycles)
    /\ cycles[k].pc = "resume"
    /\ LET c == cycles[k] IN
       IF c.pending = <<>>
       THEN /\ cycles' = RemoveAt(cycles, k)
            /\ trackedDocuments' = trackDocument(trackedDocuments, c.doc, docText[c.doc])
            /\ event' = Event("cycleDone", c.doc, docText[c.doc])
       ELSE /\ UNCHANGED trackedDocuments
            /\ IF StartInsert(c) = <<>>
               THEN /\ cycles' = RemoveAt(cycles, k)
                    /\ event' = Event("insertThrew", c.doc, c.fullFileContent)
               ELSE /\ cycles' = [cycles EXCEPT ![k] = StartInsert(c)[1]]
                    /\ event' = Event("insertStarted", c.doc, c.fullFileContent)
    /\ UNCHANGED <<optedIn, docText, last, prev, clientVars, chunkVars, routeVars, uiVars>>


(***************************************************************************)
(* Backend: usageTracker.ts                                                *)
(***************************************************************************)
FREE_LIMIT == 100
PRO_LIMIT == 1000

UsageRecord(count, date, pro) == [count |-> count, date |-> date, isPro |-> pro]

\* the usageStore after checkUsage(deviceId) on the given day: a missing record or
\* one of another day is replaced by a fresh one that keeps isPro
checkUsageStore(store, deviceId, day) ==
    IF deviceId \notin DOMAIN store
    THEN MapSet(store, deviceId, UsageRecord(0, day, FALSE))
    ELSE IF store[deviceId].date # day
    THEN MapSet(store, deviceId, UsageRecord(0, day, store[deviceId].isPro))
    ELSE store

UsageLimit(record) == IF record.isPro THEN PRO_LIMIT ELSE FREE_LIMIT

\* what checkUsage(deviceId) returns
checkUsage(store, deviceId, day) ==
    LET record == checkUsageStore(store, deviceId, day)[deviceId]
        limit == UsageLimit(record)
    IN [allowed |-> record.count < limit,
        remaining |-> Max(0, limit - record.count),
        limit |-> limit,
        used |-> record.count]

\* incrementUsage(deviceId)
incrementUsage(store, deviceId) ==
    IF deviceId \in DOMAIN store
    THEN [store EXCEPT ![deviceId].count = @ + 1]
    ELSE store

\* activatePro(deviceId)
activatePro(store, deviceId, day) ==
    IF deviceId \in DOMAIN store
    THEN [store EXCEPT ![deviceId].isPro = TRUE]
    ELSE MapSet(store, deviceId, UsageRecord(0, day, TRUE))

(***************************************************************************)
(* Backend: DiffAnalyzer (diffAnalyzer.ts)                                 *)
(***************************************************************************)
\* a ChangeClassification; confidence in hundredths
Classification(type, meaningful, publicApi, confidence, reasoning) ==
    [type |-> type, isMeaningful |-> meaningful, isPublicApi |-> publicApi,
     confidence |-> confidence, reasoning |-> reasoning]

TooFewChanges ==
    Classification("trivial", FALSE, FALSE, 90, "Too few changes to be meaningful")
AllTrivial ==
    Classification("trivial", FALSE, FALSE, 85,
                   "All changes are trivial (imports, comments, whitespace)")
NeedsDeeperAnalysis ==
    Classification("logic", TRUE, FALSE, 50, "Needs deeper analysis")
LlmAnalysisFallback ==
    Classification("logic", TRUE, FALSE, 60, "LLM analysis fallback")

importPatterns == {<<"i", "m", "p", "o", "r", "t", " ">>, <<"f", "r", "o", "m", " ">>}
commentPatterns == {<<"/", "/">>, <<"/", "*">>, <<"*">>, <<"#">>}
debugPatterns ==
    {<<"c", "o", "n", "s", "o", "l", "e", ".", "l", "o", "g">>,
     <<"p", "r", "i", "n", "t", "(">>}

IsTrivialContentNoImport(raw) ==
    LET content == Trim(raw) IN
    \/ content = <<>>
    \/ \E p \in commentPatterns : StartsWith(content, p)
    \/ \E p \in debugPatterns : Includes(content, p)
\* the tests of quickAnalysis's loop that count a change as trivial
IsTrivialContent(raw) ==
    LET content == Trim(raw) IN
    \/ content = <<>>
    \/ \E p \in importPatterns : StartsWith(content, p)
    \/ \E p \in commentPatterns : StartsWith(content, p)
    \/ \E p \in debugPatterns : Includes(content, p)

\* chunks.reduce((sum, c) => sum + c.changes.length, 0)
RECURSIVE CountChanges(_)
CountChanges(cs) ==
    IF cs = <<>> THEN 0 ELSE Len(cs[1].changes) + CountChanges(Tail(cs))

\* meaningfulCount at the end of the loop
MeaningfulCount(cs) ==
    Cardinality(UNION {{<<k, n>> : n \in {m \in 1..Len(cs[k].changes) :
                                            ~IsTrivialContent(cs[k].changes[m].content)}} :
                       k \in 1..Len(cs)})

quickAnalysisNoMinimum(cs) ==
    IF MeaningfulCount(cs) = 0
    THEN [shouldUseLLM |-> FALSE, classification |-> AllTrivial]
    ELSE [shouldUseLLM |-> TRUE, classification |-> NeedsDeeperAnalysis]
\* DiffAnalyzer.quickAnalysis
quickAnalysis(cs) ==
    IF CountChanges(cs) < 2
    THEN [shouldUseLLM |-> FALSE, classification |-> TooFewChanges]
    ELSE IF MeaningfulCount(cs) = 0
    THEN [shouldUseLLM |-> FALSE, classification |-> AllTrivial]
    ELSE [shouldUseLLM |-> TRUE, classification |-> NeedsDeeperAnalysis]

(***************************************************************************)
(* Backend: LLMService (llmService.ts)                                     *)
(***************************************************************************)
\* what generate() ends with: the text of the model's response, the throw of
\* line 30 (no API key), the throw of line 39 (generateContent failed)
LlmText(text) == [kind |-> "text", text |-> text]
LlmNotConfigured == [kind |-> "notConfigured", text |-> <<>>]
LlmApiError == [kind |-> "apiError", text |-> <<>>]

\* the character U+0060 (it cannot be written in a string here)
Backtick == "backtick"
Fence == <<Backtick, Backtick, Backtick>>
FenceJson == <<"j", "s", "o", "n">>

RECURSIVE FindFence(_, _)
\* the least offset k >= from (counted from 0) at which s has the fence, or -1
FindFence(s, from) ==
    IF from + Len(Fence) > Len(s) THEN -1
    ELSE IF StartsWithAt(s, Fence, from) THEN from
    ELSE FindFence(s, from + 1)

RECURSIVE SkipWhiteSpace(_, _)
SkipWhiteSpace(s, k) ==
    IF k < Len(s) /\ s[k + 1] \in WhiteSpace THEN SkipWhiteSpace(s, k + 1) ELSE k

\* response.match(/FENCE(?:json)?\s*([\s\S]*?)FENCE/), FENCE being three
\* backticks: group 1 of the leftmost
\* match, or the response itself when there is no match
ExtractJson(text) ==
    LET i == FindFence(text, 0)
        afterFence == i + Len(Fence)
        afterJson == IF StartsWithAt(text, FenceJson, afterFence)
                     THEN afterFence + Len(FenceJson) ELSE afterFence
        start == SkipWhiteSpace(text, afterJson)
        close == FindFence(text, start)
    IN IF i = -1 THEN text
       ELSE IF close = -1 THEN text
       ELSE SubSeq(text, start + 1, close)

\* a parsed JSON value: null, or an object of which the fields that
\* ChangeClassification and CommentResult name are kept; an absent field is <<>>
JsonNull ==
    [isNull |-> TRUE, type |-> <<>>, isMeaningful |-> <<>>, isPublicApi |-> <<>>,
     confidence |-> <<>>, reasoning |-> <<>>, skip |-> <<>>, comment |-> <<>>]
JsonClassification(c) ==
    [isNull |-> FALSE, type |-> <<c.type>>, isMeaningful |-> <<c.isMeaningful>>,
     isPublicApi |-> <<c.isPublicApi>>, confidence |-> <<c.confidence>>,
     reasoning |-> <<c.reasoning>>, skip |-> <<>>, comment |-> <<>>]
JsonCommentResult(skip, comment, confidence) ==
    [isNull |-> FALSE, type |-> <<>>, isMeaningful |-> <<>>, isPublicApi |-> <<>>,
     confidence |-> confidence, reasoning |-> <<>>, skip |-> skip, comment |-> comment]

TextNull == <<"n", "u", "l", "l">>
\* the JSON texts of two classifications
TextFeature ==
    <<"{", "\"", "t", "y", "p", "e", "\"", ":", "\"", "f", "e", "a", "t",
      "u", "r", "e", "\"", ",", "\"", "i", "s", "M", "e", "a", "n", "i",
      "n", "g", "f", "u", "l", "\"", ":", "t", "r", "u", "e", ",", "\"",
      "i", "s", "P", "u", "b", "l", "i", "c", "A", "p", "i", "\"", ":",
      "t", "r", "u", "e", ",", "\"", "c", "o", "n", "f", "i", "d", "e",
      "n", "c", "e", "\"", ":", "0", ".", "8", ",", "\"", "r", "e", "a",
      "s", "o", "n", "i", "n", "g", "\"", ":", "\"", "t", "a", "x", "\"",
      "}">>
TextRename ==
    <<"{", "\"", "t", "y", "p", "e", "\"", ":", "\"", "r", "e", "f", "a",
      "c", "t", "o", "r", "\"", ",", "\"", "i", "s", "M", "e", "a", "n",
      "i", "n", "g", "f", "u", "l", "\"", ":", "f", "a", "l", "s", "e",
      ",", "\"", "i", "s", "P", "u", "b", "l", "i", "c", "A", "p", "i",
      "\"", ":", "f", "a", "l", "s", "e", ",", "\"", "c", "o", "n", "f",
      "i", "d", "e", "n", "c", "e", "\"", ":", "0", ".", "9", ",", "\"",
      "r", "e", "a", "s", "o", "n", "i", "n", "g", "\"", ":", "\"", "r",
      "e", "n", "a", "m", "e", "\"", "}">>
\* the JSON text of an object with a type and a confidence outside the format
TextOdd ==
    <<"{", "\"", "t", "y", "p", "e", "\"", ":", "\"", "d", "o", "c", "s",
      "\"", ",", "\"", "i", "s", "M", "e", "a", "n", "i", "n", "g", "f",
      "u", "l", "\"", ":", "t", "r", "u", "e", ",", "\"", "i", "s", "P",
      "u", "b", "l", "i", "c", "A", "p", "i", "\"", ":", "f", "a", "l",
      "s", "e", ",", "\"", "c", "o", "n", "f", "i", "d", "e", "n", "c",
      "e", "\"", ":", "7", ",", "\"", "r", "e", "a", "s", "o", "n", "i",
      "n", "g", "\"", ":", "\"", "x", "\"", "}">>
ClassificationFeature == Classification("feature", TRUE, TRUE, 80, "tax")
ClassificationOdd == Classification("docs", TRUE, FALSE, 700, "x")
ClassificationRename == Classification("refactor", FALSE, FALSE, 90, "rename")

CommentGets ==
    <<"G", "e", "t", "s", " ", "t", "h", "e", " ", "u", "s", "e", "r", ".">>
CommentHandles ==
    <<"H", "a", "n", "d", "l", "e", "s", " ", "r", "e", "t", "r", "i", "e",
      "s", " ", "f", "o", "r", " ", "f", "l", "a", "k", "y", " ", "h", "o",
      "s", "t", "s">>
CommentShort == <<"R", "o", "u", "n", "d", "s", " ", "u", "p">>
CommentSpaced ==
    <<"A", "v", "o", "i", "d", "s", " ", " ", "d", "o", "u", "b", "l", "e",
      " ", "b", "i", "l", "l", "i", "n", "g">>
CommentGood ==
    <<"C", "a", "c", "h", "e", "s", " ", "r", "a", "t", "e", "s", " ", "p",
      "e", "r", " ", "r", "e", "g", "i", "o", "n">>

\* the JSON text {"skip":false,"comment":"...","confidence":0.95}
CommentJsonText(comment) ==
    <<"{", "\"", "s", "k", "i", "p", "\"", ":", "f", "a", "l", "s", "e", ",", "\"", "c", "o", "m", "m", "e", "n", "t", "\"", ":", "\"">>
        \o comment \o
    <<"\"", ",", "\"", "c", "o", "n", "f", "i", "d", "e", "n", "c", "e", "\"", ":", "0", ".", "9", "5", "}">>
TextSkip ==
    <<"{", "\"", "s", "k", "i", "p", "\"", ":", "t", "r", "u", "e", ",",
      "\"", "r", "e", "a", "s", "o", "n", "\"", ":", "\"", "o", "b", "v",
      "i", "o", "u", "s", "\"", "}">>
\* {"comment":"..."}: neither skip nor confidence
BareCommentJsonText(comment) ==
    <<"{", "\"", "c", "o", "m", "m", "e", "n", "t", "\"", ":", "\"">> \o comment \o <<"\"", "}">>
\* {"skip":true,"comment":"..."}
SkippedCommentJsonText(comment) ==
    <<"{", "\"", "s", "k", "i", "p", "\"", ":", "t", "r", "u", "e", ",", "\"", "c", "o", "m", "m", "e", "n", "t", "\"", ":", "\"">>
        \o comment \o <<"\"", "}">>
\* a response that is no JSON
TextProse ==
    <<"S", "u", "r", "e", "!", " ", "H", "e", "r", "e", " ", "y", "o", "u",
      " ", "g", "o">>
\* a JSON text cut short
TextBroken ==
    <<"{", "\"", "s", "k", "i", "p", "\"", ":", "f", "a", "l", "s", "e",
      ",">>

ServiceComments == {CommentGets, CommentHandles, CommentShort, CommentSpaced, CommentGood}

\* JSON.parse on the texts the model can answer with: the value of each text
\* that is JSON; every other text of LlmTexts is rejected with a SyntaxError
JsonTexts ==
    {<<TextNull, JsonNull>>,
     <<TextFeature, JsonClassification(ClassificationFeature)>>,
     <<TextRename, JsonClassification(ClassificationRename)>>,
     <<TextOdd, JsonClassification(ClassificationOdd)>>,
     <<TextSkip, JsonCommentResult(<<TRUE>>, <<>>, <<>>)>>}
        \cup {<<CommentJsonText(c), JsonCommentResult(<<FALSE>>, <<c>>, <<95>>)>> :
                c \in ServiceComments}
        \cup {<<BareCommentJsonText(c), JsonCommentResult(<<>>, <<c>>, <<>>)>> :
                c \in {CommentGood}}
        \cup {<<SkippedCommentJsonText(c), JsonCommentResult(<<TRUE>>, <<c>>, <<>>)>> :
                c \in {CommentGood}}

JSONParse(text) ==
    IF \E e \in JsonTexts : e[1] = text
    THEN [ok |-> TRUE, value |-> (CHOOSE e \in JsonTexts : e[1] = text)[2]]
    ELSE [ok |-> FALSE, value |-> JsonNull]

\* the response in a markdown code block
Fenced(text) == Fence \o FenceJson \o <<NL>> \o text \o <<NL>> \o Fence
\* the same without the closing fence
Unclosed(text) == Fence \o FenceJson \o <<NL>> \o text

generateJSONNoCatch(o, fallback) ==
    IF o.kind # "text" THEN JsonNull
    ELSE LET parsed == JSONParse(Trim(ExtractJson(o.text))) IN
         IF parsed.ok THEN parsed.value ELSE JsonNull
\* LLMService.generateJSON(prompt, fallback) when generate() ends with o
generateJSON(o, fallback) ==
    IF o.kind # "text" THEN fallback
    ELSE LET parsed == JSONParse(Trim(ExtractJson(o.text))) IN
         IF parsed.ok THEN parsed.value ELSE fallback

\* what the model answers to the classification prompt and to a comment prompt
ClassifyTexts ==
    {TextFeature, TextRename, TextOdd, Fenced(TextFeature), Unclosed(TextFeature),
     TextProse, TextNull}
SynthTexts ==
    {CommentJsonText(c) : c \in ServiceComments}
        \cup {TextSkip, Fenced(CommentJsonText(CommentGood)),
              BareCommentJsonText(CommentGood), SkippedCommentJsonText(CommentGood),
              TextBroken, TextProse, TextNull}

\* with an API key generate() returns a text or fails; without, it throws
LlmOutcomes(configured, texts) ==
    IF configured THEN {LlmApiError} \cup {LlmText(t) : t \in texts}
    ELSE {LlmNotConfigured}

(***************************************************************************)
(* Backend: CommentGenerator (commentGenerator.ts)                         *)
(***************************************************************************)
UpperCase ==
    <<"A", "B", "C", "D", "E", "F", "G", "H", "I", "J", "K", "L", "M",
      "N", "O", "P", "Q", "R", "S", "T", "U", "V", "W", "X", "Y", "Z">>
LowerCase ==
    <<"a", "b", "c", "d", "e", "f", "g", "h", "i", "j", "k", "l", "m",
      "n", "o", "p", "q", "r", "s", "t", "u", "v", "w", "x", "y", "z">>
\* String.prototype.toLowerCase
toLowerCase(s) ==
    [n \in 1..Len(s) |->
        IF \E i \in 1..26 : UpperCase[i] = s[n]
        THEN LowerCase[CHOOSE i \in 1..26 : UpperCase[i] = s[n]]
        ELSE s[n]]

RECURSIVE MatchParts(_, _, _)
\* s has, from offset k on, one alternative of each part in turn: the test of
\* a pattern /^(a|b)c?(d|e)/ whose parts are sets of alternatives
MatchParts(s, k, parts) ==
    IF parts = <<>> THEN TRUE
    ELSE \E alt \in parts[1] :
            StartsWithAt(s, alt, k) /\ MatchParts(s, k + Len(alt), Tail(parts))

\* the genericPatterns of isGenericComment, each anchored at the start
genericPatterns ==
    {\* /^(this|the) (function|method|code) (does|will|is)/i
     <<{<<"t", "h", "i", "s">>, <<"t", "h", "e">>},
       {<<" ">>},
       {<<"f", "u", "n", "c", "t", "i", "o", "n">>, <<"m", "e", "t", "h", "o", "d">>, <<"c", "o", "d", "e">>},
       {<<" ">>},
       {<<"d", "o", "e", "s">>, <<"w", "i", "l", "l">>, <<"i", "s">>}>>,
     \* /^handles? /i
     <<{<<"h", "a", "n", "d", "l", "e">>},
       {<<"s">>, <<>>},
       {<<" ">>}>>,
     \* /^performs? /i
     <<{<<"p", "e", "r", "f", "o", "r", "m">>},
       {<<"s">>, <<>>},
       {<<" ">>}>>,
     \* /^executes? /i
     <<{<<"e", "x", "e", "c", "u", "t", "e">>},
       {<<"s">>, <<>>},
       {<<" ">>}>>,
     \* /^returns? (a|the|true|false)/i
     <<{<<"r", "e", "t", "u", "r", "n">>},
       {<<"s">>, <<>>},
       {<<" ">>},
       {<<"a">>, <<"t", "h", "e">>, <<"t", "r", "u", "e">>, <<"f", "a", "l", "s", "e">>}>>,
     \* /^checks? (if|whether)/i
     <<{<<"c", "h", "e", "c", "k">>},
       {<<"s">>, <<>>},
       {<<" ">>},
       {<<"i", "f">>, <<"w", "h", "e", "t", "h", "e", "r">>}>>,
     \* /^loops? (through|over)/i
     <<{<<"l", "o", "o", "p">>},
       {<<"s">>, <<>>},
       {<<" ">>},
       {<<"t", "h", "r", "o", "u", "g", "h">>, <<"o", "v", "e", "r">>}>>,
     \* /^iterates? (over|through)/i
     <<{<<"i", "t", "e", "r", "a", "t", "e">>},
       {<<"s">>, <<>>},
       {<<" ">>},
       {<<"o", "v", "e", "r">>, <<"t", "h", "r", "o", "u", "g", "h">>}>>,
     \* /^creates? (a|an|the)/i
     <<{<<"c", "r", "e", "a", "t", "e">>},
       {<<"s">>, <<>>},
       {<<" ">>},
       {<<"a">>, <<"a", "n">>, <<"t", "h", "e">>}>>,
     \* /^initializes?/i
     <<{<<"i", "n", "i", "t", "i", "a", "l", "i", "z", "e">>},
       {<<"s">>, <<>>}>>,
     \* /^sets? (the|a)/i
     <<{<<"s", "e", "t">>},
       {<<"s">>, <<>>},
       {<<" ">>},
       {<<"t", "h", "e">>, <<"a">>}>>,
     \* /^gets? (the|a)/i
     <<{<<"g", "e", "t">>},
       {<<"s">>, <<>>},
       {<<" ">>},
       {<<"t", "h", "e">>, <<"a">>}>>}

RECURSIVE SplitBy(_, _, _, _)
\* text.split(sep) for a one-character sep, scanning from character k
SplitBy(text, sep, k, cur) ==
    IF k > Len(text) THEN <<cur>>
    ELSE IF text[k] = sep THEN <<cur>> \o SplitBy(text, sep, k + 1, <<>>)
    ELSE SplitBy(text, sep, k + 1, Append(cur, text[k]))

\* CommentGenerator.isGenericComment
isGenericComment(comment) ==
    \/ \E pattern \in genericPatterns : MatchParts(toLowerCase(comment), 0, pattern)
    \/ Len(SplitBy(comment, " ", 1, <<>>)) < 4

\* chunk.changes.filter(c => c.type === 'added').map(c => c.content).join('\n')
ChangedCodeAllChanges(chunk) ==
    Join([n \in 1..Len(chunk.changes) |-> chunk.changes[n].content])
\* changedCode: the contents of the added changes, joined
ChangedCode(chunk) ==
    LET added == SelectSeq(chunk.changes, LAMBDA c : c.type = "added")
    IN Join([n \in 1..Len(added) |-> added[n].content])

\* generateForChunk returns null before any prompt is sent
NothingAdded(chunk) == Trim(ChangedCode(chunk)) = <<>>

Suggestion(lineNumber, comment, style, confidence, reasoning) ==
    [lineNumber |-> lineNumber, comment |-> comment, style |-> style,
     confidence |-> confidence, reasoning |-> reasoning]

SuggestionForEndLine(chunk, style, analysis, json) ==
    IF (json.skip # <<>> /\ json.skip[1]) \/ json.comment = <<>> \/ json.comment[1] = <<>>
    THEN <<>>
    ELSE IF isGenericComment(json.comment[1]) THEN <<>>
    ELSE <<Suggestion(chunk.endLine, json.comment[1], style,
                      IF json.confidence = <<>> \/ json.confidence[1] = 0
                      THEN 70 ELSE json.confidence[1],
                      analysis.reasoning)>>
\* generateForChunk after generateJSON returned the object json: no suggestion
\* (null) or one; the id (randomUUID) is left out
SuggestionFor(chunk, style, analysis, json) ==
    IF (json.skip # <<>> /\ json.skip[1]) \/ json.comment = <<>> \/ json.comment[1] = <<>>
    THEN <<>>
    ELSE IF isGenericComment(json.comment[1]) THEN <<>>
    ELSE <<Suggestion(chunk.startLine, json.comment[1], style,
                      IF json.confidence = <<>> \/ json.confidence[1] = 0
                      THEN 70 ELSE json.confidence[1],
                      analysis.reasoning)>>

RECURSIVE NextPrompt(_, _)
\* the loop of generate(): the first chunk from index i on for which
\* generateForChunk sends a prompt, Len(cs) + 1 when there is none
NextPrompt(cs, i) ==
    IF i > Len(cs) THEN i
    ELSE IF NothingAdded(cs[i]) THEN NextPrompt(cs, i + 1)
    ELSE i

\* the ChangeClassification that analyze() hands to the route, read from a
\* parsed object; a field the object lacks reads as undefined
AsClassification(json) ==
    Classification(IF json.type = <<>> THEN "undefined" ELSE json.type[1],
                   json.isMeaningful # <<>> /\ json.isMeaningful[1],
                   json.isPublicApi # <<>> /\ json.isPublicApi[1],
                   IF json.confidence = <<>> THEN 0 ELSE json.confidence[1],
                   IF json.reasoning = <<>> THEN "undefined" ELSE json.reasoning[1])

(***************************************************************************)
(* Backend: POST /api/comments/generate (routes/comments.ts)               *)
(***************************************************************************)
MaxChanges == 2       \* changes per chunk of a request body
MaxSequential == 1    \* requests received in one behaviour, one at a time
MaxReceived == 2      \* requests received in one behaviour, overlapping
MaxRequests == 2      \* requests suspended at the same time
MaxDay == 1           \* days after the first one

Devices == {"d1", "d2"}

LineBlank == <<>>
LineSpaces == <<" ", " ">>
LineImport == <<"i", "m", "p", "o", "r", "t", " ", "a">>
LineFrom ==
    <<"f", "r", "o", "m", " ", "a", " ", "i", "m", "p", "o", "r", "t", " ",
      "b">>
LineSlash == <<"/", "/", " ", "c">>
LineBlock == <<"/", "*", " ", "c">>
LineStar == <<" ", "*", " ", "c">>
LineHash == <<"#", "i", "n", "c", "l", "u", "d", "e", " ", "<", "a", ">">>
LineLog ==
    <<" ", " ", "c", "o", "n", "s", "o", "l", "e", ".", "l", "o", "g", "(",
      "a", ")">>
LinePrint == <<"p", "r", "i", "n", "t", "(", "a", ")">>
LineCode == <<"a", " ", "=", " ", "b", " ", "*", " ", "c">>
LineReturn == <<"r", "e", "t", "u", "r", "n", " ", "a">>

TrivialLines ==
    {LineBlank, LineSpaces, LineImport, LineFrom, LineSlash, LineBlock, LineStar,
     LineHash, LineLog, LinePrint}
CodeLines == {LineCode, LineReturn}
BodyLines == TrivialLines \cup CodeLines

\* the changes a chunk of a request can carry: added lines of every kind,
\* removed lines of one
BodyChanges ==
    {[content |-> l, type |-> "added"] : l \in BodyLines}
        \cup {[content |-> LineCode, type |-> "removed"]}
\* the changes that follow the first one of a chunk
LaterChanges ==
    {[content |-> l, type |-> "added"] : l \in {LineBlank, LineImport, LineCode}}
        \cup {[content |-> LineCode, type |-> "removed"]}
\* the lists of at most n changes
ChangeListsUpTo(n) ==
    {<<>>} \cup
    UNION {{<<first>> \o rest : first \in BodyChanges, rest \in [1..m -> LaterChanges]} :
            m \in 0..(n - 1)}

\* a DiffChunk at startLine with the changes cs on consecutive lines
BodyChunk(startLine, cs) ==
    [startLine |-> startLine,
     endLine |-> startLine + Max(0, Len(cs) - 1),
     changes |-> [n \in 1..Len(cs) |->
                    [lineNumber |-> startLine + n - 1,
                     content |-> cs[n].content, type |-> cs[n].type]],
     contextBefore |-> <<>>,
     contextAfter |-> <<>>]

FewChangeLists ==
    {<<[content |-> LineCode, type |-> "added"]>>,
     <<[content |-> LineImport, type |-> "added"]>>,
     <<[content |-> LineCode, type |-> "removed"]>>,
     <<[content |-> LineReturn, type |-> "added"], [content |-> LineLog, type |-> "added"]>>}

\* request.diffChunks: no chunk, one chunk of every kind, two chunks in
\* ascending and in descending order
Bodies ==
    {<<>>}
        \cup {<<BodyChunk(1, cs)>> : cs \in ChangeListsUpTo(MaxChanges)}
        \cup {<<BodyChunk(p[1], c1), BodyChunk(p[2], c2)>> :
                p \in {<<1, 4>>, <<4, 1>>}, c1 \in FewChangeLists, c2 \in FewChangeLists}

\* the bodies of requests that overlap in time
SmallBodies ==
    {<<BodyChunk(1, cs)>> :
        cs \in {<<[content |-> LineCode, type |-> "added"],
                  [content |-> LineReturn, type |-> "added"]>>,
                <<[content |-> LineImport, type |-> "added"],
                  [content |-> LineBlank, type |-> "added"]>>}}

NoResponse ==
    [device |-> "none", diffChunks |-> <<>>, status |-> 0, code |-> "none",
     suggestions |-> <<>>, analysis |-> <<>>, shouldUpdateDocs |-> FALSE,
     used |-> 0, limit |-> 0, allowed |-> FALSE, classifyCalls |-> 0, synthCalls |-> 0,
     answers |-> <<>>]

\* the request of a handler that is suspended in an await; answers are the
\* outcomes of the calls of llmService.generate made for it so far
Request(device, body, usage) ==
    [device |-> device, diffChunks |-> body, usage |-> usage, pc |-> "classify",
     analysis |-> NeedsDeeperAnalysis, idx |-> 0, suggestions |-> <<>>,
     classifyCalls |-> 0, synthCalls |-> 0, answers |-> <<>>]

\* res.status(status).json(...) of the handler of request req
Response(req, status, code, suggestions, analysis, updateDocs, usage) ==
    [device |-> req.device, diffChunks |-> req.diffChunks, status |-> status,
     code |-> code, suggestions |-> suggestions, analysis |-> analysis,
     shouldUpdateDocs |-> updateDocs, used |-> usage.used, limit |-> usage.limit,
     allowed |-> req.usage.allowed,
     classifyCalls |-> req.classifyCalls, synthCalls |-> req.synthCalls,
     answers |-> req.answers]

\* the handler of the k-th suspended request (a new one when k is past the
\* end) answers and ends
Respond(k, store, resp) ==
    /\ inflight' = IF k > Len(inflight) THEN inflight ELSE RemoveAt(inflight, k)
    /\ usageStore' = store
    /\ response' = resp

\* the handler suspends in an await of llmService.generate
Suspend(k, store, req) ==
    /\ inflight' = IF k > Len(inflight) THEN Append(inflight, req)
                   ELSE [inflight EXCEPT ![k] = req]
    /\ usageStore' = store
    /\ response' = NoResponse

FinishPerSuggestion(k, req, store) ==
    LET incremented == IF Len(req.suggestions) > 0
                       THEN [store EXCEPT ![req.device].count = @ + Len(req.suggestions)]
                       ELSE store
    IN Respond(k, checkUsageStore(incremented, req.device, today),
               Response(req, 200, "ok", req.suggestions, <<req.analysis>>,
                        req.analysis.isPublicApi,
                        checkUsage(incremented, req.device, today)))
\* lines 92-113: generate() returned req.suggestions
Finish(k, req, store) ==
    LET incremented == IF Len(req.suggestions) > 0
                       THEN incrementUsage(store, req.device) ELSE store
    IN Respond(k, checkUsageStore(incremented, req.device, today),
               Response(req, 200, "ok", req.suggestions, <<req.analysis>>,
                        req.analysis.isPublicApi,
                        checkUsage(incremented, req.device, today)))

\* the loop of generate() from the chunk of index from on, up to its next await or its end
GenerateLoop(k, req, from, store) ==
    LET i == NextPrompt(req.diffChunks, from) IN
    IF i > Len(req.diffChunks)
    THEN Finish(k, req, store)
    ELSE Suspend(k, store, [req EXCEPT !.pc = "synth", !.idx = i,
                                       !.synthCalls = @ + 1])

\* commentGenerator.generate(chunks, ..., analysis) up to its first await
Generate(k, req, store) ==
    IF ~req.analysis.isMeaningful
    THEN Finish(k, [req EXCEPT !.suggestions = <<>>], store)
    ELSE GenerateLoop(k, req, 1, store)

\* the catch block of the route: 500
Failed(k, req, store) ==
    Respond(k, store,
            Response(req, 500, "GENERATION_ERROR", <<>>, <<>>, FALSE, req.usage))

\* lines 67-90: analyze() returned the object json
AfterAnalysis(k, req, json, store) ==
    IF json.isNull
    THEN \* analysis.isMeaningful of null throws a TypeError
         Failed(k, req, store)
    ELSE LET analysis == AsClassification(json) IN
         IF ~analysis.isMeaningful
         THEN Respond(k, store,
                      Response(req, 200, "ok", <<>>, <<analysis>>, FALSE, req.usage))
         ELSE Generate(k, [req EXCEPT !.analysis = analysis], store)

\* the handler from the arrival of a request to its first await or its answer
ReceiveRequest(device, body, wellFormed) ==
    LET store == checkUsageStore(usageStore, device, today)
        usage == checkUsage(usageStore, device, today)
        req == Request(device, body, usage)
        k == Len(inflight) + 1
        quick == quickAnalysis(body)
    IN
    /\ received' = received + 1
    /\ UNCHANGED <<today, llmConfigured>>
    /\ UNCHANGED <<clientVars, chunkVars, trackVars, saveVars, uiVars>>
    /\ IF ~usage.allowed
       THEN Respond(k, store,
                    Response(req, 429, "LIMIT_EXCEEDED", <<>>, <<>>, FALSE, usage))
       ELSE IF ~wellFormed
       THEN Respond(k, store,
                    Response(req, 400, "VALIDATION_ERROR", <<>>, <<>>, FALSE, usage))
       ELSE IF quick.shouldUseLLM
       THEN Suspend(k, store, [req EXCEPT !.classifyCalls = 1])
       ELSE AfterAnalysis(k, req, JsonClassification(quick.classification), store)

\* one request at a time, with every body
Receive(device, body, wellFormed) ==
    /\ Len(inflight) = 0
    /\ received < MaxSequential
    /\ ReceiveRequest(device, body, wellFormed)

\* requests that overlap
ReceiveConcurrent(device, body) ==
    /\ Len(inflight) < MaxRequests
    /\ received < MaxReceived
    /\ ReceiveRequest(device, body, TRUE)

\* llmAnalysis: generateJSON of the classification prompt ends, generate() of
\* the model having ended with o
ClassifyReturned(k, o) ==
    /\ k \in 1..Len(inflight)
    /\ inflight[k].pc = "classify"
    /\ o \in LlmOutcomes(llmConfigured, ClassifyTexts)
    /\ AfterAnalysis(k, [inflight[k] EXCEPT !.answers = Append(@, o)],
                     generateJSON(o, JsonClassification(LlmAnalysisFallback)), usageStore)
    /\ UNCHANGED <<today, llmConfigured, received>>
    /\ UNCHANGED <<clientVars, chunkVars, trackVars, saveVars, uiVars>>

\* generateForChunk: generateJSON of the comment prompt of chunk idx ends
SynthReturned(k, o) ==
    /\ k \in 1..Len(inflight)
    /\ inflight[k].pc = "synth"
    /\ o \in LlmOutcomes(llmConfigured, SynthTexts)
    /\ LET req == [inflight[k] EXCEPT !.answers = Append(@, o)]
           json == generateJSON(o, JsonCommentResult(<<TRUE>>, <<>>, <<>>))
       IN IF json.isNull
          THEN \* result.skip of null throws a TypeError
               Failed(k, req, usageStore)
          ELSE GenerateLoop(k,
                   [req EXCEPT !.suggestions =
                        @ \o SuggestionFor(req.diffChunks[req.idx], "short",
                                           req.analysis, json)],
                   req.idx + 1, usageStore)
    /\ UNCHANGED <<today, llmConfigured, received>>
    /\ UNCHANGED <<clientVars, chunkVars, trackVars, saveVars, uiVars>>

\* POST /api/payment/verify with a payment: activatePro(deviceId)
ActivatePro(device) ==
    /\ ~(device \in DOMAIN usageStore /\ usageStore[device].isPro)
    /\ usageStore' = activatePro(usageStore, device, today)
    /\ response' = NoResponse
    /\ UNCHANGED <<today, llmConfigured, inflight, received>>
    /\ UNCHANGED <<clientVars, chunkVars, trackVars, saveVars, uiVars>>

\* midnight (UTC): getToday() returns the next date
NewDay ==
    /\ today < MaxDay
    /\ today' = today + 1
    /\ response' = NoResponse
    /\ UNCHANGED <<usageStore, llmConfigured, inflight, received>>
    /\ UNCHANGED <<clientVars, chunkVars, trackVars, saveVars, uiVars>>


(***************************************************************************)
(* The batch run: scanAndDocumentCodebase and documentFileItems            *)
(***************************************************************************)
MaxFiles == 2
MaxItems == 2

Languages == {"python", "csharp"}

\* the name the scanner reports for the declaration on line n
ItemName(n) ==
    IF n % 2 = 1 THEN <<"f", "o", "o">>
    ELSE <<"g", "e", "t", "U", "s", "e", "r", "N", "a", "m", "e">>
\* the text of a scanned file: one declaration on each of its MaxItems lines,
\* line n indented by n - 1 spaces
FileText ==
    [n \in 1..MaxItems |-> [m \in 1..(n - 1) |-> " "] \o ItemName(n) \o <<"(", ")">>]

\* a scanned file: the lineNumber (i + 1) of its functions and of its classes
\* that have no doc comment, and its language. A line such as
\* "class Point(int x, int y)" matches the class pattern and, in the languages
\* of the Java/C#/Go pattern, the function pattern as well
ScannedFiles ==
    {f \in [functions : SUBSET (1..MaxItems), classes : SUBSET (1..MaxItems),
             language : Languages] :
        f.language = "csharp" \/ f.functions \cap f.classes = {}}

\* the files a scan finds
RECURSIVE FileLists(_)
FileLists(n) ==
    IF n = 0 THEN {<<>>}
    ELSE LET shorter == FileLists(n - 1)
         IN  shorter \cup {Append(fs, f) : fs \in shorter, f \in ScannedFiles}

NoScan ==
    [pc |-> "idle", cancelled |-> FALSE, files |-> <<>>, i |-> 0, j |-> 0,
     readme |-> "unread", late |-> {}, outcome |-> "none", single |-> FALSE,
     items |-> <<>>, doc |-> <<>>, comment |-> <<>>, inserted |-> <<>>]

\* codebaseScanner.getFilesNeedingDocs
getFilesNeedingDocs(allFiles) ==
    SelectSeq(allFiles, LAMBDA f : f.functions \cup f.classes # {})

RECURSIVE totalUndocumented(_)
totalUndocumented(files) ==
    IF files = <<>> THEN 0
    ELSE Cardinality(Head(files).functions) + Cardinality(Head(files).classes)
         + totalUndocumented(Tail(files))

\* the items the scanner found on the lines of S, in the order it pushed them
RECURSIVE InScanOrder(_)
InScanOrder(S) ==
    IF S = {} THEN <<>>
    ELSE LET first == CHOOSE n \in S : \A m \in S : n <= m
         IN  <<first>> \o InScanOrder(S \ {first})

RECURSIVE SortDescending(_)
\* items.sort((a, b) => b.lineNumber - a.lineNumber): stable, descending
SortDescending(items) ==
    IF items = <<>> THEN <<>>
    ELSE LET rest == SortDescending(Tail(items))
             before == SelectSeq(rest, LAMBDA n : n > Head(items))
             after == SelectSeq(rest, LAMBDA n : n <= Head(items))
         IN  before \o <<Head(items)>> \o after

\* allItems of documentFileItems
allItems(file) ==
    SortDescending(InScanOrder(file.functions) \o InScanOrder(file.classes))

\* Array.prototype.reverse
Reverse(seq) == [n \in 1..Len(seq) |-> seq[Len(seq) + 1 - n]]

RECURSIVE SpaceBeforeCapitals(_)
\* name.replace(/([A-Z])/g, ' $1')
SpaceBeforeCapitals(name) ==
    IF name = <<>> THEN <<>>
    ELSE (IF \E n \in 1..Len(UpperCase) : UpperCase[n] = Head(name)
          THEN <<" ", Head(name)>> ELSE <<Head(name)>>)
         \o SpaceBeforeCapitals(Tail(name))

\* generateLocalComment
generateLocalComment(name, language) ==
    LET spaced == SpaceBeforeCapitals(name)
        words == toLowerCase(Trim([n \in 1..Len(spaced) |->
                     IF spaced[n] \in {"_", "-"} THEN " " ELSE spaced[n]]))
        description == <<"H", "a", "n", "d", "l", "e", "s", " ">> \o words
    IN  IF language = "python"
        THEN <<"\"", "\"", "\"">> \o description \o <<".", "\"", "\"", "\"">>
        ELSE <<"/", "*", "*", "\n", " ", "*", " ">> \o description
             \o <<"\n", " ", "*", "/">>

\* insertCommentAtLine: document.lineAt throws past the last line
CanInsertAtLine(doc, lineNumber) ==
    (IF lineNumber < 0 THEN 0 ELSE lineNumber) < Len(doc)

\* comment.split('\n').map(l => indent + l)
IndentedComment(doc, lineNumber, comment) ==
    LET indent == Indentation(doc[(IF lineNumber < 0 THEN 0 ELSE lineNumber) + 1])
        lines == Split(comment)
    IN  [n \in 1..Len(lines) |-> indent \o lines[n]]

\* insertCommentAtLine: the lines of the document after the edit at
\* Position(lineNumber, 0)
insertCommentAtLine(doc, lineNumber, comment) ==
    SubSeq(doc, 1, lineNumber) \o IndentedComment(doc, lineNumber, comment)
    \o SubSeq(doc, lineNumber + 1, Len(doc))

\* op is started; late keeps the operations started with the token cancelled
Started(s, op) ==
    [s EXCEPT !.late = IF s.cancelled THEN @ \cup {op} ELSE @]

\* documentFileItems or documentSingleFile is left: its locals are gone
Left(s) ==
    [s EXCEPT !.j = 0, !.items = <<>>, !.doc = <<>>, !.comment = <<>>,
              !.inserted = <<>>]

Ended(s, how) == [Left(s) EXCEPT !.pc = "done", !.outcome = how]

\* from the check before step 4 to the re-scan
BeforeStep4(s) ==
    IF s.cancelled THEN Ended(s, "cancelled") ELSE [s EXCEPT !.pc = "rescan"]

\* from the check after step 2 to the next await
AfterReadme(s) ==
    IF s.cancelled THEN Ended(s, "cancelled")
    ELSE IF totalUndocumented(s.files) > 0 THEN [s EXCEPT !.pc = "choice"]
    ELSE BeforeStep4(s)

\* the head of the loop over filesNeedingDocs, for file number n
NextFile(s, n) ==
    IF n > Len(s.files) \/ s.cancelled THEN [s EXCEPT !.pc = "usage"]
    ELSE [s EXCEPT !.pc = "open", !.i = n, !.j = 0]

\* the head of the loop over allItems in documentFileItems and over
\* undocumented.reverse() in documentSingleFile
NextItem(s) ==
    IF s.j < Len(s.items) THEN Started([s EXCEPT !.pc = "generate"], "generate")
    ELSE IF s.single THEN Ended(s, "complete")
    ELSE [s EXCEPT !.pc = "save"]

\* the command autodocs.scanCodebase: up to scanWorkspace()
StartScan ==
    /\ scan.pc = "idle"
    /\ scan' = [scan EXCEPT !.pc = "scan"]
    /\ UNCHANGED <<wm, clientVars, chunkVars, trackVars, saveVars, routeVars>>

\* documentSingleFile on the active editor's document, up to the first
\* generateCommentForFunction
StartSingleFile(file) ==
    /\ scan.pc = "idle"
    /\ file.classes = {}
    /\ scan' = IF file.functions = {} THEN Ended(scan, "empty")
               ELSE NextItem([scan EXCEPT !.single = TRUE, !.files = <<file>>,
                                          !.i = 1, !.j = 0, !.doc = FileText,
                                          !.items = Reverse(InScanOrder(file.functions))])
    /\ UNCHANGED <<wm, clientVars, chunkVars, trackVars, saveVars, routeVars>>

\* the user presses Cancel on the progress notification
Cancel ==
    /\ scan.pc \notin {"idle", "done"}
    /\ ~scan.single
    /\ ~scan.cancelled
    /\ scan' = [scan EXCEPT !.cancelled = TRUE]
    /\ UNCHANGED <<wm, clientVars, chunkVars, trackVars, saveVars, routeVars>>

\* scanWorkspace() of step 1 returns
ScanReturned(allFiles) ==
    /\ scan.pc = "scan"
    /\ scan' = IF allFiles = <<>> THEN Ended(scan, "empty")
               ELSE IF scan.cancelled THEN Ended(scan, "cancelled")
               ELSE [scan EXCEPT !.pc = "readme",
                                 !.files = getFilesNeedingDocs(allFiles)]
    /\ UNCHANGED <<wm, clientVars, chunkVars, trackVars, saveVars, routeVars>>

\* fs.readFile(readmePath) returns or throws
ReadmeRead(readmeExists) ==
    /\ scan.pc = "readme"
    /\ scan' = IF readmeExists THEN AfterReadme([scan EXCEPT !.readme = "existing"])
               ELSE [scan EXCEPT !.pc = "create"]
    /\ UNCHANGED <<wm, clientVars, chunkVars, trackVars, saveVars, routeVars>>

\* fs.writeFile(readmePath, initialReadme) returns
ReadmeCreated ==
    /\ scan.pc = "create"
    /\ scan' = AfterReadme([scan EXCEPT !.readme = "initial"])
    /\ UNCHANGED <<wm, clientVars, chunkVars, trackVars, saveVars, routeVars>>

\* the user answers "Add Comments?"
Choice(add) ==
    /\ scan.pc = "choice"
    /\ scan' = IF add THEN NextFile(scan, 1) ELSE BeforeStep4(scan)
    /\ UNCHANGED <<wm, clientVars, chunkVars, trackVars, saveVars, routeVars>>

\* documentFileItems: openTextDocument and showTextDocument have returned
FileOpened ==
    /\ scan.pc = "open"
    /\ scan' = NextItem([scan EXCEPT !.doc = FileText, !.inserted = <<>>,
                                     !.items = allItems(scan.files[scan.i])])
    /\ UNCHANGED <<wm, clientVars, chunkVars, trackVars, saveVars, routeVars>>

\* generateCommentForFunction returns: the first suggestion of the service,
\* or the local comment when the service gave none or the call threw;
\* insertCommentAtLine runs up to editor.edit
CommentGenerated(suggested) ==
    /\ scan.pc = "generate"
    /\ LET item == scan.items[scan.j + 1]
           comment == IF suggested # <<>> THEN suggested[1]
                      ELSE generateLocalComment(ItemName(item),
                                                scan.files[scan.i].language)
       IN  scan' = IF comment = <<>> THEN NextItem([scan EXCEPT !.j = @ + 1])
                   ELSE IF ~CanInsertAtLine(scan.doc, item - 1) THEN Ended(scan, "error")
                   ELSE Started([scan EXCEPT !.pc = "insert", !.comment = comment],
                                "insert")
    /\ UNCHANGED <<wm, clientVars, chunkVars, trackVars, saveVars, routeVars>>

\* insertCommentAtLine returns: the edit is applied
CommentInserted ==
    /\ scan.pc = "insert"
    /\ LET item == scan.items[scan.j + 1]
       IN  scan' = NextItem([scan EXCEPT
                       !.j = @ + 1,
                       !.doc = insertCommentAtLine(@, item - 1, scan.comment),
                       !.inserted = Append(@, [lineNumber |-> item,
                                               lines |-> IndentedComment(scan.doc, item - 1,
                                                                         scan.comment)])])
    /\ UNCHANGED <<wm, clientVars, chunkVars, trackVars, saveVars, routeVars>>

\* document.save() returns: documentFileItems is over, the loop goes on
FileSaved ==
    /\ scan.pc = "save"
    /\ scan' = NextFile(Left(scan), scan.i + 1)
    /\ UNCHANGED <<wm, clientVars, chunkVars, trackVars, saveVars, routeVars>>

\* usageService.incrementUsage() returns
UsageIncremented ==
    /\ scan.pc = "usage"
    /\ scan' = BeforeStep4(scan)
    /\ UNCHANGED <<wm, clientVars, chunkVars, trackVars, saveVars, routeVars>>

\* scanWorkspace() of step 4 returns; the README is written next
Rescanned ==
    /\ scan.pc = "rescan"
    /\ scan' = Started([scan EXCEPT !.pc = "write"], "write")
    /\ UNCHANGED <<wm, clientVars, chunkVars, trackVars, saveVars, routeVars>>

\* fs.writeFile(readmePath, newReadmeContent) returns
ReadmeWritten ==
    /\ scan.pc = "write"
    /\ scan' = Ended([scan EXCEPT !.readme = "rewritten"], "complete")
    /\ UNCHANGED <<wm, clientVars, chunkVars, trackVars, saveVars, routeVars>>

\* a call of the editor host throws: the catch of scanAndDocumentCodebase
HostFailed ==
    /\ scan.pc \in {"scan", "create", "open", "insert", "save", "usage", "rescan", "write"}
    /\ scan' = Ended(scan, "error")
    /\ UNCHANGED <<wm, clientVars, chunkVars, trackVars, saveVars, routeVars>>

(***************************************************************************)
(* The documentation prompt: checkAndPromptForDocumentation (extension.ts) *)
(* and WorkspaceManager.promptForDocumentation                             *)
(***************************************************************************)
MaxTimers == 2
MaxPrompts == 3

\* stored: the workspace's entry of the opted-in record in globalState,
\* <<>> while there is none; timers: the pending setTimeout callbacks, each
\* with the entry its check saw; open: the prompts on screen; shown: the
\* prompts shown so far; late: a check that saw a stored decline led to a prompt
NoPrompt ==
    [stored |-> <<>>, loggedIn |-> FALSE, folder |-> TRUE, timers |-> <<>>,
     open |-> 0, shown |-> 0, late |-> FALSE]

\* WorkspaceManager.isWorkspaceOptedIn
isWorkspaceOptedIn(w) == w.folder /\ w.stored = <<TRUE>>

checkAndPromptForDocumentation(w) ==
    IF w.loggedIn /\ w.folder /\ ~isWorkspaceOptedIn(w)
    THEN [w EXCEPT !.timers = Append(@, w.stored)]
    ELSE w

\* WorkspaceManager.setOptedIn
setOptedIn(w, value) == IF w.folder THEN [w EXCEPT !.stored = <<value>>] ELSE w

\* the command autoreadme.login, when authService.login() succeeds or not
Login(success) ==
    /\ ~wm.loggedIn
    /\ Len(wm.timers) < MaxTimers
    /\ wm' = IF success
             THEN checkAndPromptForDocumentation([wm EXCEPT !.loggedIn = TRUE])
             ELSE wm
    /\ optedIn' = isWorkspaceOptedIn(wm')
    /\ UNCHANGED <<scan, docText, cycles, event, clientVars, chunkVars, trackVars, routeVars>>

\* the command autoreadme.devLogin: the auth state handler checks, then the command
DevLogin ==
    /\ Len(wm.timers) + 2 <= MaxTimers
    /\ wm' = checkAndPromptForDocumentation(
                checkAndPromptForDocumentation([wm EXCEPT !.loggedIn = TRUE]))
    /\ optedIn' = isWorkspaceOptedIn(wm')
    /\ UNCHANGED <<scan, docText, cycles, event, clientVars, chunkVars, trackVars, routeVars>>

\* the command autoreadme.logout
Logout ==
    /\ wm.loggedIn
    /\ wm' = [wm EXCEPT !.loggedIn = FALSE]
    /\ optedIn' = isWorkspaceOptedIn(wm')
    /\ UNCHANGED <<scan, docText, cycles, event, clientVars, chunkVars, trackVars, routeVars>>

\* onDidChangeWorkspaceFolders: the workspace's folder is removed or added back
WorkspaceFoldersChanged(present) ==
    /\ wm.folder # present
    /\ Len(wm.timers) < MaxTimers
    /\ wm' = checkAndPromptForDocumentation([wm EXCEPT !.folder = present])
    /\ optedIn' = isWorkspaceOptedIn(wm')
    /\ UNCHANGED <<scan, docText, cycles, event, clientVars, chunkVars, trackVars, routeVars>>

\* the window is reloaded: activate() runs again on the persisted globalState
Startup ==
    /\ wm.shown < MaxPrompts
    /\ wm' = checkAndPromptForDocumentation([wm EXCEPT !.timers = <<>>, !.open = 0])
    /\ optedIn' = isWorkspaceOptedIn(wm')
    /\ UNCHANGED <<scan, docText, cycles, event, clientVars, chunkVars, trackVars, routeVars>>

\* a timer of 1500 ms fires: promptForDocumentation up to showInformationMessage
PromptTimerFired ==
    /\ wm.timers # <<>>
    /\ wm.shown < MaxPrompts
    /\ LET w == [wm EXCEPT !.timers = Tail(@)]
       IN  wm' = IF ~w.folder \/ isWorkspaceOptedIn(w) THEN w
                 ELSE [w EXCEPT !.open = @ + 1, !.shown = @ + 1,
                                !.late = @ \/ Head(wm.timers) = <<FALSE>>]
    /\ optedIn' = isWorkspaceOptedIn(wm')
    /\ UNCHANGED <<scan, docText, cycles, event, clientVars, chunkVars, trackVars, routeVars>>

\* the user answers a prompt (yes) or declines or dismisses it:
\* promptForDocumentation goes on to enableDocumentation or setOptedIn(false)
PromptAnswered(yes) ==
    /\ wm.open > 0
    /\ wm' = setOptedIn([wm EXCEPT !.open = @ - 1], yes)
    /\ optedIn' = isWorkspaceOptedIn(wm')
    /\ UNCHANGED <<scan, docText, cycles, event, clientVars, chunkVars, trackVars, routeVars>>

\* generateCommentForFunction: where the comment of an item comes from, given
\* the answer resp of the route to its request (a status other than 200 makes
\* apiClient.generateComments throw, which the catch block turns into the
\* local comment)
generateCommentForFunction(resp) ==
    IF resp.status = 200 /\ Len(resp.suggestions) > 0 THEN "service" ELSE "local"

(***************************************************************************)
(* Specifications: one per component, the others at rest                   *)
(***************************************************************************)
\* the state after construction: new ApiClient(), new DiffDetector(), activate()
ClientSpecInit ==
    /\ cpc = "idle" /\ attempt = 0 /\ delays = <<>> /\ isOnline = TRUE
    /\ lastError = MsgUnknown /\ outcomes = <<>> /\ result = NoResult
    /\ transport = "none"
    /\ dpc = "off" /\ oldContent = <<>> /\ newContent = <<>> /\ chunks = <<>>
    /\ trackedDocuments = <<>> /\ last = NoCall /\ prev = NoCall
    /\ optedIn = FALSE /\ docText = <<>> /\ cycles = <<>> /\ event = NoEvent
    /\ usageStore = <<>> /\ today = 0 /\ llmConfigured = TRUE /\ inflight = <<>>
    /\ response = NoResponse /\ received = 0
    /\ scan = NoScan /\ wm = NoPrompt

ClientNext ==
    \/ PostWithRetryStart
    \/ \E o \in Outcomes : PostAttempt(o)
    \/ SleepDone
    \/ \E o \in HealthOutcomes : HealthCheck(o)

ClientSpec == ClientSpecInit /\ [][ClientNext]_vars
\* a fetch ends (response, error, or the abort of the 30 s timer) and a timer fires
ClientLiveSpec ==
    ClientSpec /\ WF_vars(\E o \in Outcomes : PostAttempt(o)) /\ WF_vars(SleepDone)

\* every pair of texts as the input of computeChunks
ChunkSpecInit ==
    /\ dpc = "input"
    /\ oldContent \in TextsUpTo(MaxTextLen)
    /\ newContent \in TextsUpTo(MaxTextLen)
    /\ chunks = <<>>
    /\ cpc = "idle" /\ attempt = 0 /\ delays = <<>> /\ isOnline = TRUE
    /\ lastError = MsgUnknown /\ outcomes = <<>> /\ result = NoResult
    /\ transport = "none"
    /\ trackedDocuments = <<>> /\ last = NoCall /\ prev = NoCall
    /\ optedIn = FALSE /\ docText = <<>> /\ cycles = <<>> /\ event = NoEvent
    /\ usageStore = <<>> /\ today = 0 /\ llmConfigured = TRUE /\ inflight = <<>>
    /\ response = NoResponse /\ received = 0
    /\ scan = NoScan /\ wm = NoPrompt

ChunkSpec == ChunkSpecInit /\ [][ComputeChunks]_vars

TrackSpecInit ==
    /\ trackedDocuments = <<>> /\ last = NoCall /\ prev = NoCall
    /\ cpc = "idle" /\ attempt = 0 /\ delays = <<>> /\ isOnline = TRUE
    /\ lastError = MsgUnknown /\ outcomes = <<>> /\ result = NoResult
    /\ transport = "none"
    /\ dpc = "off" /\ oldContent = <<>> /\ newContent = <<>> /\ chunks = <<>>
    /\ optedIn = FALSE /\ docText = <<>> /\ cycles = <<>> /\ event = NoEvent
    /\ usageStore = <<>> /\ today = 0 /\ llmConfigured = TRUE /\ inflight = <<>>
    /\ response = NoResponse /\ received = 0
    /\ scan = NoScan /\ wm = NoPrompt

TrackNext ==
    \/ \E uri \in Docs, text \in SaveTexts : TrackDocument(uri, text)
    \/ \E uri \in Docs, text \in SaveTexts : GetDiff(uri, text)
    \/ \E uri \in Docs : UntrackDocument(uri)
    \/ ClearAll

TrackSpec == TrackSpecInit /\ [][TrackNext]_vars

\* the workspace opted in in an earlier session or not; no document open yet
SaveSpecInit ==
    /\ optedIn \in BOOLEAN /\ docText = <<>> /\ cycles = <<>> /\ event = NoEvent
    /\ trackedDocuments = <<>> /\ last = NoCall /\ prev = NoCall
    /\ cpc = "idle" /\ attempt = 0 /\ delays = <<>> /\ isOnline = TRUE
    /\ lastError = MsgUnknown /\ outcomes = <<>> /\ result = NoResult
    /\ transport = "none"
    /\ dpc = "off" /\ oldContent = <<>> /\ newContent = <<>> /\ chunks = <<>>
    /\ usageStore = <<>> /\ today = 0 /\ llmConfigured = TRUE /\ inflight = <<>>
    /\ response = NoResponse /\ received = 0
    /\ scan = NoScan /\ wm = NoPrompt

SaveNext ==
    \/ \E uri \in SaveDocs : \E text \in UserTexts(uri) : OpenDocument(uri, text)
    \/ \E uri \in SaveDocs : \E text \in UserTexts(uri) : UserEdit(uri, text)
    \/ \E v \in BOOLEAN : SetOptedIn(v)
    \/ \E uri \in SaveDocs, visible \in BOOLEAN : UserSave(uri, visible)
    \/ \E k \in 1..MaxCycles : GenerateFailed(k)
    \/ \E k \in 1..MaxCycles, picks \in SUBSET (1..MaxDocLines) : GenerateReturned(k, picks)
    \/ \E k \in 1..MaxCycles, success \in BOOLEAN : EditApplied(k, success)
    \/ \E k \in 1..MaxCycles, visible \in BOOLEAN : InsertSaved(k, visible)
    \/ \E k \in 1..MaxCycles : Resume(k)
    \/ \E uri \in SaveDocs : CloseDocument(uri)

SaveSpec == SaveSpecInit /\ [][SaveNext]_vars

\* document u1 of an opted-in workspace, open with a snapshot, edited by the
\* user and not yet saved
InsertSpecInit ==
    /\ optedIn = TRUE /\ cycles = <<>> /\ event = NoEvent
    /\ docText = [d \in {"u1"} |-> Join(InsertNewLines)]
    /\ \E old \in InsertOldLines :
            trackedDocuments = trackDocument(<<>>, "u1", Join(old))
    /\ last = NoCall /\ prev = NoCall
    /\ cpc = "idle" /\ attempt = 0 /\ delays = <<>> /\ isOnline = TRUE
    /\ lastError = MsgUnknown /\ outcomes = <<>> /\ result = NoResult
    /\ transport = "none"
    /\ dpc = "off" /\ oldContent = <<>> /\ newContent = <<>> /\ chunks = <<>>
    /\ usageStore = <<>> /\ today = 0 /\ llmConfigured = TRUE /\ inflight = <<>>
    /\ response = NoResponse /\ received = 0
    /\ scan = NoScan /\ wm = NoPrompt

InsertNext ==
    \/ \E visible \in BOOLEAN : UserSave("u1", visible)
    \/ \E k \in 1..MaxCycles : GenerateFailed(k)
    \/ \E k \in 1..MaxCycles, picks \in SUBSET (1..MaxInsertLines) :
            GenerateReturnedLong(k, picks)
    \/ \E k \in 1..MaxCycles, success \in BOOLEAN : EditApplied(k, success)
    \/ \E k \in 1..MaxCycles, visible \in BOOLEAN : InsertSaved(k, visible)
    \/ \E k \in 1..MaxCycles : Resume(k)

\* the saves of one document of three lines and the insertions they lead to
InsertSpec == InsertSpecInit /\ [][InsertNext]_vars

\* the backend after start: an empty usageStore, or the store of a day on
\* which d1 has used up its free requests; with or without an API key
PipelineSpecInit ==
    /\ usageStore \in {<<>>, [d \in {"d1"} |-> UsageRecord(FREE_LIMIT, 0, FALSE)]}
    /\ today = 0 /\ llmConfigured \in BOOLEAN /\ inflight = <<>>
    /\ response = NoResponse /\ received = 0
    /\ scan = NoScan /\ wm = NoPrompt
    /\ cpc = "idle" /\ attempt = 0 /\ delays = <<>> /\ isOnline = TRUE
    /\ lastError = MsgUnknown /\ outcomes = <<>> /\ result = NoResult
    /\ transport = "none"
    /\ dpc = "off" /\ oldContent = <<>> /\ newContent = <<>> /\ chunks = <<>>
    /\ trackedDocuments = <<>> /\ last = NoCall /\ prev = NoCall
    /\ optedIn = FALSE /\ docText = <<>> /\ cycles = <<>> /\ event = NoEvent

PipelineNext ==
    \/ \E body \in Bodies : Receive("d1", body, TRUE)
    \/ Receive("d1", <<>>, FALSE)
    \/ \E k \in 1..MaxRequests, o \in LlmOutcomes(TRUE, ClassifyTexts) \cup {LlmNotConfigured} :
            ClassifyReturned(k, o)
    \/ \E k \in 1..MaxRequests, o \in LlmOutcomes(TRUE, SynthTexts) \cup {LlmNotConfigured} :
            SynthReturned(k, o)

\* the route serving one request at a time
PipelineSpec == PipelineSpecInit /\ [][PipelineNext]_vars

\* the usageStore of a day on which d1, free or Pro, is one request short of
\* its limit, or has used none
RouteSpecInit ==
    /\ usageStore \in
            {[d \in {"d1"} |-> UsageRecord(c, 0, FALSE)] : c \in {0, FREE_LIMIT - 1}}
                \cup {[d \in {"d1"} |-> UsageRecord(PRO_LIMIT - 1, 0, TRUE)]}
    /\ today = 0 /\ llmConfigured = TRUE /\ inflight = <<>>
    /\ response = NoResponse /\ received = 0
    /\ scan = NoScan /\ wm = NoPrompt
    /\ cpc = "idle" /\ attempt = 0 /\ delays = <<>> /\ isOnline = TRUE
    /\ lastError = MsgUnknown /\ outcomes = <<>> /\ result = NoResult
    /\ transport = "none"
    /\ dpc = "off" /\ oldContent = <<>> /\ newContent = <<>> /\ chunks = <<>>
    /\ trackedDocuments = <<>> /\ last = NoCall /\ prev = NoCall
    /\ optedIn = FALSE /\ docText = <<>> /\ cycles = <<>> /\ event = NoEvent

RouteNext ==
    \/ \E device \in Devices, body \in SmallBodies : ReceiveConcurrent(device, body)
    \/ \E k \in 1..MaxRequests, o \in LlmOutcomes(TRUE, {TextFeature, TextRename}) :
            ClassifyReturned(k, o)
    \/ \E k \in 1..MaxRequests,
          o \in LlmOutcomes(TRUE, {CommentJsonText(CommentGood), TextSkip}) :
            SynthReturned(k, o)
    \/ \E device \in Devices : ActivatePro(device)
    \/ NewDay

\* the route serving requests that overlap in time
RouteSpec == RouteSpecInit /\ [][RouteNext]_vars

\* the extension after activate(), before the scan command is run
ScanSpecInit ==
    /\ scan = NoScan /\ wm = NoPrompt
    /\ cpc = "idle" /\ attempt = 0 /\ delays = <<>> /\ isOnline = TRUE
    /\ lastError = MsgUnknown /\ outcomes = <<>> /\ result = NoResult
    /\ transport = "none"
    /\ dpc = "off" /\ oldContent = <<>> /\ newContent = <<>> /\ chunks = <<>>
    /\ trackedDocuments = <<>> /\ last = NoCall /\ prev = NoCall
    /\ optedIn = FALSE /\ docText = <<>> /\ cycles = <<>> /\ event = NoEvent
    /\ usageStore = <<>> /\ today = 0 /\ llmConfigured = TRUE /\ inflight = <<>>
    /\ response = NoResponse /\ received = 0

ScanNext ==
    \/ StartScan
    \/ \E file \in ScannedFiles : StartSingleFile(file)
    \/ Cancel
    \/ \E allFiles \in FileLists(MaxFiles) : ScanReturned(allFiles)
    \/ \E readmeExists \in BOOLEAN : ReadmeRead(readmeExists)
    \/ ReadmeCreated
    \/ \E add \in BOOLEAN : Choice(add)
    \/ FileOpened
    \/ \E suggested \in {<<>>, <<CommentGood>>, << <<>> >>} : CommentGenerated(suggested)
    \/ CommentInserted
    \/ FileSaved
    \/ UsageIncremented
    \/ Rescanned
    \/ ReadmeWritten
    \/ HostFailed

\* one run of the batch command
ScanSpec == ScanSpecInit /\ [][ScanNext]_vars

\* a first activation: nobody logged in, nothing stored for the workspace
PromptSpecInit ==
    /\ wm = NoPrompt /\ scan = NoScan
    /\ cpc = "idle" /\ attempt = 0 /\ delays = <<>> /\ isOnline = TRUE
    /\ lastError = MsgUnknown /\ outcomes = <<>> /\ result = NoResult
    /\ transport = "none"
    /\ dpc = "off" /\ oldContent = <<>> /\ newContent = <<>> /\ chunks = <<>>
    /\ trackedDocuments = <<>> /\ last = NoCall /\ prev = NoCall
    /\ optedIn = FALSE /\ docText = <<>> /\ cycles = <<>> /\ event = NoEvent
    /\ usageStore = <<>> /\ today = 0 /\ llmConfigured = TRUE /\ inflight = <<>>
    /\ response = NoResponse /\ received = 0

PromptNext ==
    \/ \E success \in BOOLEAN : Login(success)
    \/ DevLogin
    \/ Logout
    \/ \E present \in BOOLEAN : WorkspaceFoldersChanged(present)
    \/ Startup
    \/ PromptTimerFired
    \/ \E yes \in BOOLEAN : PromptAnswered(yes)

\* the logins, reloads and prompts of one workspace
PromptSpec == PromptSpecInit /\ [][PromptNext]_vars

(***************************************************************************)
(* Properties of postWithRetry                                             *)
(***************************************************************************)
\* the failures the retry policy is for: timeout, transport failure, 5xx
Retryable(o) ==
    \/ o.kind \in {"timeout", "network"}
    \/ o.kind = "http" /\ o.status \in ServerStatuses
IsClientError(o) == o.kind = "http" /\ o.status \in ClientStatuses
AllRetryable(os) == \A k \in 1..Len(os) : Retryable(os[k])

\* C1: when the first attempt is answered 400, 401 or 429, that attempt is the
\* only one: no backoff delay is taken and the error is thrown at once.
C1_ClientErrorNotRetried ==
    (Len(outcomes) >= 1 /\ IsClientError(outcomes[1]))
        => (Len(outcomes) = 1 /\ delays = <<>> /\ cpc = "thrown")

\* C2: retryable failures on attempts 1 and 2 and a success on attempt 3: the call
\* goes on after each failure, sleeping 1000 ms and then 2000 ms, and returns the
\* response after exactly three attempts.
C2_TwoFailuresThenSuccess ==
    /\ (Len(outcomes) \in 1..2 /\ AllRetryable(outcomes))
            => /\ cpc \in {"sleep", "post"}
               /\ delays = SubSeq(<<1000, 2000>>, 1, Len(outcomes))
    /\ (Len(outcomes) = 3 /\ Retryable(outcomes[1]) /\ Retryable(outcomes[2])
            /\ outcomes[3] = Ok)
            => /\ cpc = "returned"
               /\ result = "response"
               /\ attempt = 3
               /\ delays = <<1000, 2000>>
C2_Witness ==
    /\ Len(outcomes) = 3 /\ Retryable(outcomes[1]) /\ Retryable(outcomes[2])
    /\ outcomes[3] = Ok /\ cpc = "returned"

\* C3: at most 3 attempts whatever the transport does; a sleep is never taken
\* after the last attempt; when all attempts fail with retryable failures there
\* are exactly 3 of them and 2 sleeps and the error thrown is the last attempt's;
\* and every call ends (returns or throws).
C3_AttemptsBounded ==
    /\ Len(outcomes) <= 3
    /\ Len(delays) <= 2
    /\ cpc = "sleep" => Len(outcomes) < 3
    /\ (cpc = "thrown" /\ AllRetryable(outcomes))
            => /\ Len(outcomes) = 3
               /\ Len(delays) = 2
               /\ lastError = PostErrorMessage(outcomes[3])
C3_BoundedAndFinishes ==
    /\ []C3_AttemptsBounded
    /\ (cpc \in {"post", "sleep"}) ~> (cpc \in {"returned", "thrown"})
C3_Witness ==
    cpc = "thrown" /\ Len(outcomes) = 3 /\ AllRetryable(outcomes) /\ Len(delays) = 2

\* C23: an attempt that ends by the timeout counts as failed with the timeout
\* error and is retried: after fewer than 3 attempts postWithRetry sleeps its
\* backoff delay and posts again, after the third it throws that error.
C23_TimeoutRetried ==
    (outcomes # <<>> /\ outcomes[Len(outcomes)] = Timeout)
        => LET n == Len(outcomes) IN
           /\ lastError = MsgTimeout
           /\ n < 3 => /\ cpc \in {"sleep", "post"}
                       /\ cpc = "post" => attempt = n + 1
                       /\ Len(delays) = n
                       /\ delays[n] = <<1000, 2000>>[n]
           /\ n = 3 => cpc = "thrown" /\ Len(delays) = 2
C23_Witness ==
    /\ outcomes = <<Timeout, Timeout>>
    /\ cpc = "post" /\ attempt = 3 /\ delays = <<1000, 2000>>

\* C17: the online flag follows the last transport outcome: a send that fails
\* below HTTP clears isOnline, a later call that succeeds sets it, and whenever
\* the most recent of these outcomes was a success checkOnline() is true.
C17_OnlineFollowsTransport == transport = "success" => isOnline

\* C39: an attempt of postWithRetry that ends with an HTTP error response or
\* with a timeout leaves isOnline as it was; and the flag is no gate: a call
\* can start, an attempt can be made and a backoff can end whatever the flag is.
C39_AttemptEnded ==
    /\ Len(outcomes') = Len(outcomes) + 1
    /\ outcomes'[Len(outcomes')].kind \in {"http", "timeout"}
C39_FlagAdvisory ==
    /\ [][C39_AttemptEnded => isOnline' = isOnline]_vars
    /\ [](cpc \in {"idle", "returned", "thrown"} => ENABLED PostWithRetryStart)
    /\ [](cpc = "post" => \A o \in Outcomes : ENABLED PostAttempt(o))
    /\ [](cpc = "sleep" => ENABLED SleepDone)
C39_Witness ==
    /\ ~isOnline /\ cpc = "sleep" /\ Len(outcomes) = 2
    /\ outcomes[1] = Network /\ outcomes[2].kind \in {"http", "timeout"}

(***************************************************************************)
(* Properties of computeChunks                                             *)
(***************************************************************************)
RECURSIVE AllChanges(_)
AllChanges(cs) == IF cs = <<>> THEN <<>> ELSE cs[1].changes \o AllChanges(Tail(cs))

IsAdded(c) == c.type = "added"
IsRemoved(c) == c.type = "removed"

\* lines without the lines at the positions in gone (positions counted from 1)
RECURSIVE DeleteAt(_, _, _)
DeleteAt(lines, gone, k) ==
    IF k > Len(lines) THEN <<>>
    ELSE (IF k \in gone THEN <<>> ELSE <<lines[k]>>) \o DeleteAt(lines, gone, k + 1)

\* lines with each added change put in at its line number, in the order reported
RECURSIVE InsertAll(_, _)
InsertAll(lines, adds) ==
    IF adds = <<>> THEN lines
    ELSE LET a == adds[1]
             at == Min(a.lineNumber, Len(lines) + 1)
         IN  InsertAll(SubSeq(lines, 1, at - 1) \o <<a.content>>
                            \o SubSeq(lines, at, Len(lines)),
                       Tail(adds))

\* the replay of a chunk list on the old lines
Replay(oldLines, cs) ==
    LET removed == SelectSeq(AllChanges(cs), IsRemoved)
        added == SelectSeq(AllChanges(cs), IsAdded)
        gone == {removed[k].lineNumber : k \in 1..Len(removed)}
    IN  InsertAll(DeleteAt(oldLines, gone, 1), added)

\* every removed change names a line of the old text and every added change a
\* line of the result
ReplayDefined(oldLines, newLines, cs) ==
    LET all == AllChanges(cs) IN
    \A k \in 1..Len(all) :
        IF IsRemoved(all[k])
        THEN /\ all[k].lineNumber \in 1..Len(oldLines)
             /\ oldLines[all[k].lineNumber] = all[k].content
        ELSE /\ all[k].lineNumber \in 1..Len(newLines)

\* C7: deleting from the old text the lines reported removed and inserting the
\* lines reported added, each at its reported position, gives the new text.
C7_RoundTrip ==
    dpc = "done" =>
        /\ ReplayDefined(Split(oldContent), Split(newContent), chunks)
        /\ Join(Replay(Split(oldContent), chunks)) = newContent
C7_Witness ==
    /\ dpc = "done" /\ Len(chunks) >= 2
    /\ \E k \in 1..Len(AllChanges(chunks)) : IsRemoved(AllChanges(chunks)[k])
    /\ \E k \in 1..Len(AllChanges(chunks)) : IsAdded(AllChanges(chunks)[k])
    /\ Len(Split(oldContent)) # Len(Split(newContent))
    /\ Join(Replay(Split(oldContent), chunks)) = newContent

\* the new-text line numbers a chunk's context was sliced from
ContextBeforePositions(c) == (c.startLine - Len(c.contextBefore))..(c.startLine - 1)
ContextAfterPositions(c) == (c.endLine + 1)..(c.endLine + Len(c.contextAfter))

\* C8: a chunk's contextBefore and contextAfter hold at most 3 lines each, and
\* none of these lines lies inside another chunk of the same diff.
C8_ContextBounds ==
    dpc = "done" =>
        \A k \in 1..Len(chunks) :
            /\ Len(chunks[k].contextBefore) <= 3
            /\ Len(chunks[k].contextAfter) <= 3
            /\ \A m \in 1..Len(chunks) : m # k =>
                    (ContextBeforePositions(chunks[k]) \cup ContextAfterPositions(chunks[k]))
                        \cap (chunks[m].startLine..chunks[m].endLine) = {}

\* old and new have the same line at position p (counted from 1)
SameLineAt(p) ==
    /\ p \in 1..Len(Split(oldContent))
    /\ p \in 1..Len(Split(newContent))
    /\ Split(oldContent)[p] = Split(newContent)[p]

\* C9: chunks are in strictly ascending startLine order, their ranges do not
\* overlap, each is a run of positions where old and new differ, and between two
\* consecutive chunks there is a position where old and new match.
C9_OrderedDisjointMaximal ==
    dpc = "done" =>
        /\ \A k \in 1..Len(chunks) :
                /\ chunks[k].startLine <= chunks[k].endLine
                /\ \A p \in chunks[k].startLine..chunks[k].endLine : ~SameLineAt(p)
        /\ \A k \in 1..(Len(chunks) - 1) :
                /\ chunks[k].startLine < chunks[k + 1].startLine
                /\ chunks[k].endLine < chunks[k + 1].startLine
                /\ \E p \in (chunks[k].endLine + 1)..(chunks[k + 1].startLine - 1) :
                        SameLineAt(p)
C9_Witness == dpc = "done" /\ Len(chunks) >= 3

\* a text of one line, and the texts of C10 made of two of them
IsLine(t) == \A k \in 1..Len(t) : t[k] # NL
\* C10: appending a line L2 to the newline-terminated text L1 + "\n" gives one
\* chunk, starting at line 2, whose only added change is L2 at line 2.
C10_AppendOneLine ==
    (/\ dpc = "done"
     /\ \E l1, l2 \in TextsUpTo(MaxTextLen) :
            /\ IsLine(l1) /\ IsLine(l2) /\ l1 # <<>> /\ l2 # <<>>
            /\ oldContent = l1 \o <<NL>>
            /\ newContent = l1 \o <<NL>> \o l2 \o <<NL>>)
        => /\ Len(chunks) = 1
           /\ chunks[1].startLine = 2
           /\ SelectSeq(chunks[1].changes, IsAdded)
                = <<Added(2, Split(newContent)[2])>>

\* C29: at every position where both texts have a line and the lines differ,
\* the changes hold the new line as added and then the old line as removed,
\* once each and both numbered with that position (the two pointers are equal
\* there); two adjacent distinct lines that are swapped give one chunk of two
\* additions and two removals.
C29_TwoPointerAlignment ==
    dpc = "done"
        => LET old == Split(oldContent)
               new == Split(newContent)
               all == AllChanges(chunks)
           IN /\ \A p \in 1..Min(Len(old), Len(new)) :
                    old[p] # new[p]
                        => /\ \E q \in 1..(Len(all) - 1) :
                                /\ all[q] = Added(p, new[p])
                                /\ all[q + 1] = Removed(p, old[p])
                           /\ Cardinality({q \in 1..Len(all) :
                                    all[q].lineNumber = p /\ IsAdded(all[q])}) = 1
                           /\ Cardinality({q \in 1..Len(all) :
                                    all[q].lineNumber = p /\ IsRemoved(all[q])}) = 1
              /\ (/\ Len(old) = 2 /\ Len(new) = 2 /\ old[1] # old[2]
                  /\ new = <<old[2], old[1]>>)
                    => /\ Len(chunks) = 1
                       /\ chunks[1].changes =
                            <<Added(1, new[1]), Removed(1, old[1]),
                              Added(2, new[2]), Removed(2, old[2])>>
C29_Witness ==
    /\ dpc = "done"
    /\ Len(Split(oldContent)) = 2 /\ Len(Split(newContent)) = 2
    /\ Split(oldContent)[1] # Split(oldContent)[2]
    /\ Split(newContent) = <<Split(oldContent)[2], Split(oldContent)[1]>>
    /\ Len(chunks) = 1 /\ Len(chunks[1].changes) = 4

\* C24: startLine, endLine and the lineNumber of every change, added or
\* removed, of every chunk are line numbers of the new text: between 1 and its
\* number of lines.
C24_NewTextCoordinates ==
    dpc = "done"
        => LET n == Len(Split(newContent)) IN
           \A k \in 1..Len(chunks) :
                /\ chunks[k].startLine \in 1..n
                /\ chunks[k].endLine \in 1..n
                /\ \A m \in 1..Len(chunks[k].changes) :
                        chunks[k].changes[m].lineNumber \in 1..n

\* newLines is oldLines with one line put in at position k (counted from 1)
InsertedAt(oldLines, newLines, k) ==
    /\ Len(newLines) = Len(oldLines) + 1
    /\ \A m \in 1..Len(oldLines) : oldLines[m] = newLines[IF m < k THEN m ELSE m + 1]
PairwiseDistinct(lines) ==
    \A m, n \in 1..Len(lines) : lines[m] = lines[n] => m = n
ContentsOf(changes, type) ==
    LET sel == SelectSeq(changes, LAMBDA c : c.type = type)
    IN  [n \in 1..Len(sel) |-> sel[n].content]

\* C38: one new line put in at position k of a text whose lines, the new one
\* included, are pairwise distinct: computeChunks returns one chunk, from line k
\* to the last line of the new text, that reports the old lines from k on as
\* removed and the new lines from k on as added, and has no contextAfter.
C38_InsertionShiftsToEnd ==
    dpc = "done" =>
        LET oldLines == Split(oldContent)
            newLines == Split(newContent)
        IN  \A k \in 1..Len(newLines) :
                (InsertedAt(oldLines, newLines, k) /\ PairwiseDistinct(newLines))
                    => /\ Len(chunks) = 1
                       /\ chunks[1].startLine = k
                       /\ chunks[1].endLine = Len(newLines)
                       /\ chunks[1].contextAfter = <<>>
                       /\ ContentsOf(chunks[1].changes, "removed")
                            = Slice(oldLines, k - 1, Len(oldLines))
                       /\ ContentsOf(chunks[1].changes, "added")
                            = Slice(newLines, k - 1, Len(newLines))
\* a line put in between two others
C38_Witness ==
    /\ dpc = "done"
    /\ LET oldLines == Split(oldContent)
           newLines == Split(newContent)
       IN  /\ Len(oldLines) = 2
           /\ InsertedAt(oldLines, newLines, 2) /\ PairwiseDistinct(newLines)
           /\ Len(chunks) = 1 /\ Len(chunks[1].changes) = 3

(***************************************************************************)
(* Properties of the tracker                                               *)
(***************************************************************************)
\* C4: getDiff for a document without a snapshot returns null whatever the text
\* and records the text; the next getDiff for that document with another text
\* returns a result with at least one chunk.
C4_FirstObservation ==
    /\ (last.op = "getDiff" /\ last.before = <<>>)
            => /\ last.ret = Null
               /\ Snapshot(trackedDocuments, last.doc) = <<last.text>>
    /\ (/\ last.op = "getDiff" /\ prev.op = "getDiff" /\ prev.before = <<>>
        /\ prev.doc = last.doc /\ prev.text # last.text)
            => /\ last.ret # Null
               /\ Len(last.ret[1].chunks) >= 1
C4_Witness ==
    /\ last.op = "getDiff" /\ prev.op = "getDiff" /\ prev.before = <<>>
    /\ prev.doc = last.doc /\ prev.text # last.text /\ last.ret # Null

\* l is a getDiff(id, text) that directly follows p, a trackDocument(id, text) or
\* a getDiff(id, text) on the snapshot text
NoopAfter(p, l) ==
    /\ l.op = "getDiff" /\ p.doc = l.doc /\ p.text = l.text
    /\ \/ p.op = "trackDocument"
       \/ p.op = "getDiff" /\ p.before = <<p.text>>
\* C5: after trackDocument(id, text), each getDiff(id, text) of an unbroken run of
\* them returns null and leaves the snapshot equal to text.
C5_NoopSaves ==
    NoopAfter(prev, last)
        => /\ last.ret = Null
           /\ last.before = <<last.text>>
           /\ Snapshot(trackedDocuments, last.doc) = <<last.text>>
C5_Witness ==
    /\ NoopAfter(prev, last) /\ prev.op = "getDiff" /\ prev.ret = Null
    /\ last.ret = Null /\ last.text # <<>>

\* C22: every getDiff call writes the entry of its document exactly once,
\* whatever its outcome.
C22_ExactlyOneWrite == last.op = "getDiff" => last.writes = 1
\* C22, amended: a getDiff call writes the entry of its document once on a
\* first observation and on a changed text and not at all on a no-op save; the
\* snapshot is the text passed in afterwards, and the entries of the other
\* documents are left as they are.
C22_OneWriteUnlessNoop ==
    /\ [](last.op = "getDiff"
            => /\ last.writes = (IF last.before = <<last.text>> THEN 0 ELSE 1)
               /\ Snapshot(trackedDocuments, last.doc) = <<last.text>>)
    /\ [][last'.op = "getDiff"
            => /\ \A d \in Docs \ {last'.doc} :
                    Snapshot(trackedDocuments', d) = Snapshot(trackedDocuments, d)
               /\ last'.writes = 0 <=> trackedDocuments' = trackedDocuments]_vars
C22_Witness ==
    /\ last.op = "getDiff" /\ last.writes = 0 /\ last.before = <<last.text>>
    /\ prev.op = "getDiff" /\ prev.writes = 1 /\ prev.doc # last.doc
    /\ DOMAIN trackedDocuments = Docs

(***************************************************************************)
(* Properties of the save handler                                          *)
(***************************************************************************)
\* C6: after every getDiff call the snapshot of the document is the text passed
\* in; the save handler has made that update when it issues the generation
\* request; and a failed generation request leaves the tracker as it is.
C6_SnapshotAtSavedText ==
    /\ event.kind \in {"saveNoRequest", "requestIssued"}
            => Snapshot(trackedDocuments, event.doc) = <<event.text>>
    /\ event.kind = "requestIssued"
            => /\ cycles[Len(cycles)].pc = "request"
               /\ cycles[Len(cycles)].fullFileContent = event.text
C6_SnapshotAdvances ==
    /\ []C6_SnapshotAtSavedText
    /\ [][event'.kind = "generateFailed" => trackedDocuments' = trackedDocuments]_vars
C6_Witness ==
    /\ event.kind = "generateFailed"
    /\ event.text # <<>>
    /\ Snapshot(trackedDocuments, event.doc) = <<event.text>>

\* C19: when the handler of a save computes the diff of a document, every
\* cycle in flight for that document, started by an earlier save, has the
\* snapshot at its saved text since it was issued: two cycles never diff
\* against one snapshot that the first of them left as it was.
C19_DiffAfterSnapshotUpdate ==
    [][event'.kind \in {"saveNoRequest", "requestIssued"}
            => \A k \in 1..Len(cycles) :
                    cycles[k].doc = event'.doc => cycles[k].tracked]_vars
C19_Witness ==
    /\ event.kind = "requestIssued"
    /\ Len(cycles) = 2
    /\ cycles[1].doc = cycles[2].doc
    /\ cycles[1].pc = "request" /\ cycles[2].pc = "request"
    /\ cycles[1].fullFileContent # cycles[2].fullFileContent
    /\ cycles[1].tracked

\* C25: a snapshot is discarded when its document closes: after the close
\* event the tracker has no snapshot of that document.
C25_SnapshotDiscardedOnClose ==
    event.kind = "close" => Snapshot(trackedDocuments, event.doc) = <<>>

\* C33: the save that insert() makes after its edit runs the save handler, and
\* that run issues no generation request: a cycle's own insertion never starts
\* a further cycle.
C33_NoFeedbackLoop ==
    [][\A k \in 1..Len(cycles) :
            (cycles[k].pc = "saving" /\ k <= Len(cycles') /\ cycles'[k].pc = "resume")
                => event'.kind # "requestIssued"]_vars

\* C34: when the edit of a suggestion is applied, the comment stands right
\* above the line that the suggestion's lineNumber names in the text that was
\* saved, for the first suggestion of a response and for the later ones.
C34_InsertedAboveTarget ==
    [][\A k \in 1..Len(cycles) :
            (cycles[k].pc = "applying" /\ k <= Len(cycles') /\ cycles'[k].pc = "saving")
                => LET lineNumber == cycles[k].edit.line + 1
                       inserted == Len(Split(cycles[k].edit.text)) - 1
                       after == Split(docText'[cycles[k].doc])
                   IN  /\ lineNumber + inserted <= Len(after)
                       /\ after[lineNumber + inserted]
                            = Split(cycles[k].fullFileContent)[lineNumber]]_vars

(***************************************************************************)
(* Properties of the classifier                                            *)
(***************************************************************************)
\* the contents of the changes of all chunks of a request body
ChangeContents(body) ==
    UNION {{body[k].changes[n].content : n \in 1..Len(body[k].changes)} :
            k \in 1..Len(body)}
\* the route has run DiffAnalyzer.analyze for the request it answers
Analyzed == response.device # "none" /\ response.analysis # <<>>

C12_SmallDiffRejected ==
    (Analyzed /\ CountChanges(response.diffChunks) < 2)
        => /\ ~response.analysis[1].isMeaningful
           /\ response.classifyCalls = 0
           /\ response.synthCalls = 0
           /\ response.status = 200
           /\ response.suggestions = <<>>
C12_Witness ==
    /\ Analyzed
    /\ CountChanges(response.diffChunks) = 1
    /\ ChangeContents(response.diffChunks) = {LineCode}
    /\ response.analysis[1] = TooFewChanges
    /\ response.suggestions = <<>>

\* generate() threw, or returned a text that is not JSON, with or without a
\* code block around it
NoJson(o) ==
    \/ o.kind # "text"
    \/ o.text \in {TextProse, TextBroken, Unclosed(TextFeature)}
\* the classification call made for the request r ended without JSON
ClassificationFailed(r) ==
    r.classifyCalls = 1 /\ Len(r.answers) >= 1 /\ NoJson(r.answers[1])

\* C13: when the classification call fails (no API key, API error) or answers
\* with a text that is not JSON, analyze returns the fallback classification
\* (logic, meaningful, confidence 0.6) instead of throwing, and the route goes
\* on to the generator.
C13_ClassificationFallsBack ==
    /\ \A k \in 1..Len(inflight) :
            ClassificationFailed(inflight[k])
                => /\ inflight[k].analysis = LlmAnalysisFallback
                   /\ inflight[k].pc = "synth"
    /\ ClassificationFailed(response)
            => /\ Len(response.answers) = 1 => response.status = 200
               /\ response.status = 200
                    => /\ response.analysis = <<LlmAnalysisFallback>>
                       /\ response.analysis[1].type = "logic"
                       /\ response.analysis[1].isMeaningful
                       /\ response.analysis[1].confidence = 60
C13_Witness ==
    /\ ClassificationFailed(response)
    /\ response.answers[1] = LlmApiError
    /\ response.status = 200
    /\ response.analysis = <<LlmAnalysisFallback>>
    /\ Len(response.suggestions) = 1

\* the ChangeClassification c has the fields of the type declaration
WellFormed(c) ==
    /\ c.type \in {"logic", "refactor", "fix", "feature", "trivial"}
    /\ c.isMeaningful \in BOOLEAN /\ c.isPublicApi \in BOOLEAN
    /\ c.confidence \in 0..100

\* C26: whatever the model answers, the classification analyze returns has a
\* type among logic, refactor, fix, feature, trivial, boolean flags and a
\* confidence in [0, 1].
C26_ClassificationWellFormed ==
    /\ \A k \in 1..Len(inflight) :
            inflight[k].pc = "synth" => WellFormed(inflight[k].analysis)
    /\ Analyzed => WellFormed(response.analysis[1])

\* at least 2 changed lines, one of them substantive: not blank, not an import,
\* not a comment, not a debug print
Candidate(body) ==
    CountChanges(body) >= 2 /\ ChangeContents(body) \cap CodeLines # {}

IsBatchBody(body) ==
    /\ Len(body) = 1 /\ body[1].startLine = 1
    /\ Len(body[1].changes) = 1 /\ body[1].changes[1].type = "added"

\* C35: a request of generateCommentForFunction is never answered with a
\* suggestion: when the route analyses it, tier 1 finds fewer than 2 changes,
\* no call to the model is made and the suggestion list is empty; so the
\* comment of batch mode is the local one.
C35_BatchCommentIsLocal ==
    (response.device # "none" /\ IsBatchBody(response.diffChunks))
        => /\ response.status = 200
                => /\ response.analysis = <<TooFewChanges>>
                   /\ response.classifyCalls = 0 /\ response.synthCalls = 0
                   /\ response.suggestions = <<>>
           /\ generateCommentForFunction(response) = "local"
C35_Witness ==
    /\ response.device # "none" /\ IsBatchBody(response.diffChunks)
    /\ response.diffChunks[1].changes[1].content = LineReturn
    /\ response.status = 200 /\ response.suggestions = <<>>
    /\ generateCommentForFunction(response) = "local"

(***************************************************************************)
(* Properties of the generator                                             *)
(***************************************************************************)
\* the number of words of a text: the maximal runs of characters other than
\* the space
WordCount(text) ==
    Cardinality({i \in 1..Len(text) :
                    text[i] # " " /\ (i = 1 \/ text[i - 1] = " ")})
\* the comments of the service that open with a generic pattern
GenericOpenings == {CommentGets, CommentHandles}

\* C14: no suggestion carries a comment that opens with a generic pattern or
\* has fewer than 4 words, whatever skip flag and confidence came with it.
C14_GenericRejected ==
    \A n \in 1..Len(response.suggestions) :
        /\ response.suggestions[n].comment \notin GenericOpenings
        /\ WordCount(response.suggestions[n].comment) >= 4

\* the chunk c has an added line that is not blank: generateForChunk sends a
\* prompt for it
HasAddedText(c) ==
    \E n \in 1..Len(c.changes) :
        c.changes[n].type = "added" /\ c.changes[n].content \notin {LineBlank, LineSpaces}
\* the outcomes of the comment prompts of the request r, in the order of the calls
SynthAnswers(r) == SubSeq(r.answers, r.classifyCalls + 1, Len(r.answers))
\* a skip signal, a failed call or a text that is not JSON
Degraded(o) ==
    \/ NoJson(o)
    \/ o.text \in {TextSkip, SkippedCommentJsonText(CommentGood)}

\* C15: a skip signal, a failed call or an unparsable answer for a chunk gives
\* no suggestion for that chunk and no error of generate: the request is not
\* answered with an error because of it, and the chunks after it get their call.
C15_SynthesisDegrades ==
    (response.device # "none" /\ response.synthCalls >= 1)
        => LET answers == SynthAnswers(response)
               prompted == SelectSeq(response.diffChunks, HasAddedText)
           IN \A j \in 1..Len(answers) :
                Degraded(answers[j])
                    => /\ \A n \in 1..Len(response.suggestions) :
                            response.suggestions[n].lineNumber # prompted[j].startLine
                       /\ j = Len(answers) => response.status = 200
                       /\ j < Len(prompted) => Len(answers) > j
C15_Witness ==
    /\ response.device # "none" /\ response.status = 200
    /\ Len(SelectSeq(response.diffChunks, HasAddedText)) = 2
    /\ Len(SynthAnswers(response)) = 2
    /\ SynthAnswers(response)[1] = LlmApiError
    /\ SynthAnswers(response)[2] = LlmText(CommentJsonText(CommentGood))
    /\ Len(response.suggestions) = 1
    /\ response.suggestions[1].lineNumber = response.diffChunks[2].startLine

\* the suggestions sugs are those of some of the chunks cs, one for each at
\* most, in the order of the chunks, each at the first line of its chunk
InChunkOrder(sugs, cs) ==
    \E at \in [1..Len(sugs) -> 1..Len(cs)] :
        /\ \A n \in 1..Len(sugs) : sugs[n].lineNumber = cs[at[n]].startLine
        /\ \A n \in 1..(Len(sugs) - 1) : at[n] < at[n + 1]
Ascending(lines) == \A n \in 1..(Len(lines) - 1) : lines[n] < lines[n + 1]

\* C16: the suggestions of generate are in chunk order, at most one for a
\* chunk, each at the startLine of its chunk, hence ascending when the chunks
\* are; for a classification that is not meaningful there is no suggestion
\* and no call of the service.
C16_ChunkOrder ==
    /\ \A k \in 1..Len(inflight) :
            InChunkOrder(inflight[k].suggestions, inflight[k].diffChunks)
    /\ response.device # "none"
        => /\ InChunkOrder(response.suggestions, response.diffChunks)
           /\ Ascending([n \in 1..Len(response.diffChunks) |->
                            response.diffChunks[n].startLine])
                => Ascending([n \in 1..Len(response.suggestions) |->
                                response.suggestions[n].lineNumber])
           /\ (response.analysis # <<>> /\ ~response.analysis[1].isMeaningful)
                => response.suggestions = <<>> /\ response.synthCalls = 0
C16_Witness ==
    /\ response.device # "none"
    /\ Len(response.diffChunks) = 2
    /\ response.diffChunks[1].startLine < response.diffChunks[2].startLine
    /\ response.diffChunks[1].endLine > response.diffChunks[1].startLine
    /\ Len(response.suggestions) = 2
    /\ response.suggestions[1].lineNumber = response.diffChunks[1].startLine
    /\ response.suggestions[2].lineNumber = response.diffChunks[2].startLine

\* C27: for a chunk without an added line of non-blank content, such as a pure
\* removal, generateForChunk gives no suggestion and sends no prompt: the
\* calls of the service are at most one for each chunk with added text.
C27_OnlyAddedLines ==
    /\ \A k \in 1..Len(inflight) :
            /\ inflight[k].synthCalls
                    <= Len(SelectSeq(inflight[k].diffChunks, HasAddedText))
            /\ inflight[k].pc = "synth"
                    => HasAddedText(inflight[k].diffChunks[inflight[k].idx])
    /\ response.device # "none"
        => /\ response.synthCalls <= Len(SelectSeq(response.diffChunks, HasAddedText))
           /\ \A j \in 1..Len(response.diffChunks) :
                ~HasAddedText(response.diffChunks[j])
                    => \A n \in 1..Len(response.suggestions) :
                            response.suggestions[n].lineNumber
                                # response.diffChunks[j].startLine
C27_Witness ==
    /\ response.device # "none" /\ response.status = 200
    /\ Len(response.diffChunks) = 2
    /\ ~HasAddedText(response.diffChunks[1])
    /\ response.diffChunks[1].changes # <<>>
    /\ HasAddedText(response.diffChunks[2])
    /\ response.synthCalls = 1
    /\ Len(response.suggestions) = 1
    /\ response.suggestions[1].lineNumber = response.diffChunks[2].startLine

(***************************************************************************)
(* Properties of the usage limit                                           *)
(***************************************************************************)
\* C18: a request whose usage check reports not allowed is answered as a save
\* that is not meaningful: no call of the service, an empty result, no error.
C18_NotAllowedIsEmptyResult ==
    (response.device # "none" /\ ~response.allowed)
        => /\ response.classifyCalls = 0 /\ response.synthCalls = 0
           /\ response.suggestions = <<>>
           /\ response.status = 200 /\ response.code = "ok"

\* C20: whatever the interleaving of the requests, the count recorded for a
\* device on a day never exceeds the limit of the device (100 free, 1000 Pro).
C20_CountWithinLimit ==
    \A d \in DOMAIN usageStore : usageStore[d].count <= UsageLimit(usageStore[d])

\* the number of requests counted for the device on the day
DailyCount(store, device, day) ==
    IF device \in DOMAIN store /\ store[device].date = day
    THEN store[device].count ELSE 0

C21_CancelStopsWork == scan.late \cap {"generate", "insert", "write"} = {}

\* the line of the document that holds the declaration the scan found on
\* line n; the declarations of a file are pairwise different
DeclarationAt(doc, n) == CHOOSE p \in 1..Len(doc) : doc[p] = FileText[n]

\* C32: documentFileItems and documentSingleFile insert in strictly
\* descending order of the target line; at each insertion the line the scan
\* reported still holds the declaration, and every inserted comment stands
\* immediately above its declaration
C32_BottomUp ==
    /\ \A a, b \in 1..Len(scan.inserted) :
           a < b => scan.inserted[a].lineNumber > scan.inserted[b].lineNumber
    /\ scan.pc = "insert" =>
           scan.doc[scan.items[scan.j + 1]] = FileText[scan.items[scan.j + 1]]
    /\ \A a \in 1..Len(scan.inserted) :
           LET p == DeclarationAt(scan.doc, scan.inserted[a].lineNumber)
               n == Len(scan.inserted[a].lines)
           IN  /\ p > n
               /\ SubSeq(scan.doc, p - n, p - 1) = scan.inserted[a].lines

\* C36: no comment that the batch run inserts is generic by isGenericComment,
\* and each has at least 4 words
C36_InsertedNotGeneric ==
    scan.pc = "insert" => ~isGenericComment(scan.comment) /\ WordCount(scan.comment) >= 4

(***************************************************************************)
(* Properties of the documentation prompt                                  *)
(***************************************************************************)
\* C30: after the user declined the prompt, no later login, dev-login,
\* workspace-folder change or startup leads to the prompt being shown again
C30_PromptedOnce == ~wm.late

====
